---------------------------- MODULE Spec2Model ----------------------------
(***************************************************************************)
(* A model of qr-gen: the bitstream encoder (src/src/bitcoding.rs), the    *)
(* capacity table (src/src/tables.rs), the module canvas, the codeword     *)
(* placement walker and the format/version writers                         *)
(* (src/src/serialization.rs), the mask patterns and their scoring         *)
(* (src/src/serialization/masking.rs) and the pipeline create_qr_code      *)
(* (src/src/lib.rs).                                                       *)
(*                                                                         *)
(* A bit recorder is the sequence of the bits written to it, first bit     *)
(* first.  A panic (a failed assert!, an unwrap of an Err, an explicit     *)
(* panic!, an index out of range, an arithmetic overflow in a build with   *)
(* overflow checks) ends the call; the value a panicking call leaves in    *)
(* the recorder it borrowed is kept, marked ok = FALSE.                    *)
(***************************************************************************)
EXTENDS Integers, Sequences, FiniteSets, TLC

VARIABLES
    pc,               \* position of the caller: which call it made last
    overflow_checks,  \* the build: TRUE = arithmetic overflow panics (debug)
    size,             \* the Size the caller works with
    stream,           \* the QrBitRecorder: [bits, ok]
    call,             \* history: the last writer call, its arguments, the bits before it
    fin,              \* result of finalize_bitstream
    sym               \* the symbol under construction (canvas and its phases)

vars == <<pc, overflow_checks, size, stream, call, fin, sym>>

---------------------------------------------------------------------------
(* Bounds of the model.                                                    *)

\* longest payload of the regular family (Base payloads)
MaxLen == 24
\* longest payload in which one byte is replaced by a byte of the alphabet
MaxVarLen == 5
\* longest payload drawn freely over the alphabet of its mode
MaxFree == 2
\* most bits a caller writes to the recorder by itself
MaxRaw == 160

---------------------------------------------------------------------------
(* config.rs                                                               *)

Micro(i) == [kind |-> "Micro", v |-> i]
Standard(i) == [kind |-> "Standard", v |-> i]

Encodings == {"Numeric", "Alphanumeric", "Bytes", "Kanji"}
ECCLevels == {"L", "M", "Q", "H"}

\* a faulty variant, kept to show what the property rules out: takes version 27 into the middle group
num_char_count_bits_upto27(ec, sz) ==
    IF sz.kind = "Micro"
    THEN CASE ec = "Numeric" -> 2 + sz.v
           [] ec \in {"Alphanumeric", "Bytes"} -> 1 + sz.v
           [] OTHER -> sz.v
    ELSE IF sz.v \in 1..9
    THEN CASE ec = "Numeric" -> 10
           [] ec = "Alphanumeric" -> 9
           [] OTHER -> 8
    ELSE IF sz.v \in 10..27
    THEN CASE ec = "Numeric" -> 12
           [] ec = "Alphanumeric" -> 11
           [] ec = "Bytes" -> 16
           [] OTHER -> 10
    ELSE CASE ec = "Numeric" -> 14
           [] ec = "Alphanumeric" -> 13
           [] ec = "Bytes" -> 16
           [] OTHER -> 12

num_char_count_bits(ec, sz) ==
    IF sz.kind = "Micro"
    THEN CASE ec = "Numeric" -> 2 + sz.v
           [] ec \in {"Alphanumeric", "Bytes"} -> 1 + sz.v
           [] OTHER -> sz.v
    ELSE IF sz.v \in 1..9
    THEN CASE ec = "Numeric" -> 10
           [] ec = "Alphanumeric" -> 9
           [] OTHER -> 8
    ELSE IF sz.v \in 10..26
    THEN CASE ec = "Numeric" -> 12
           [] ec = "Alphanumeric" -> 11
           [] ec = "Bytes" -> 16
           [] OTHER -> 10
    ELSE CASE ec = "Numeric" -> 14
           [] ec = "Alphanumeric" -> 13
           [] ec = "Bytes" -> 16
           [] OTHER -> 12

num_encoded_bits(ec, num_chars) ==
    CASE ec = "Numeric" -> (10 * num_chars + 2) \div 3
      [] ec = "Alphanumeric" -> (11 * num_chars + 1) \div 2
      [] ec = "Bytes" -> num_chars * 8
      [] OTHER -> num_chars * 13

quiet_region_size(sz) == IF sz.kind = "Micro" THEN 2 ELSE 4

dimensions(sz) == IF sz.kind = "Micro" THEN sz.v * 2 + 9 ELSE sz.v * 4 + 17

Min(a, b) == IF a <= b THEN a ELSE b

num_mode_indicator_bits(sz) == IF sz.kind = "Micro" THEN sz.v - 1 ELSE 4

terminator_length(sz) == IF sz.kind = "Micro" THEN 1 + 2 * sz.v ELSE 4

---------------------------------------------------------------------------
(* tables.rs: one row per define_capacity_table! entry, in source order:   *)
(* kind, version, level, data_bits, chars_numeric, chars_alphanum,         *)
(* chars_bytes, chars_kanji, block_def1 (num_blocks, codewords,            *)
(* data_codewords), block_def2 (the same).                                 *)

SYMBOL_CAPACITY_TABLE ==
  <<
    <<"Micro", 1, "L", 20, 5, 0, 0, 0, 1, 5, 3, 0, 0, 0>>,
    <<"Micro", 2, "L", 40, 10, 6, 0, 0, 1, 10, 5, 0, 0, 0>>,
    <<"Micro", 2, "M", 32, 8, 5, 0, 0, 1, 10, 4, 0, 0, 0>>,
    <<"Micro", 3, "L", 84, 23, 14, 9, 6, 1, 17, 11, 0, 0, 0>>,
    <<"Micro", 3, "M", 68, 18, 11, 7, 4, 1, 17, 9, 0, 0, 0>>,
    <<"Micro", 4, "L", 128, 35, 21, 15, 9, 1, 24, 16, 0, 0, 0>>,
    <<"Micro", 4, "M", 112, 30, 18, 13, 8, 1, 24, 14, 0, 0, 0>>,
    <<"Micro", 4, "Q", 80, 21, 13, 9, 4, 1, 24, 10, 0, 0, 0>>,
    <<"Standard", 1, "L", 152, 41, 25, 17, 10, 1, 26, 19, 0, 0, 0>>,
    <<"Standard", 1, "M", 128, 34, 20, 14, 8, 1, 26, 16, 0, 0, 0>>,
    <<"Standard", 1, "Q", 104, 27, 16, 11, 7, 1, 26, 13, 0, 0, 0>>,
    <<"Standard", 1, "H", 72, 17, 10, 7, 4, 1, 26, 9, 0, 0, 0>>,
    <<"Standard", 2, "L", 272, 77, 47, 32, 20, 1, 44, 34, 0, 0, 0>>,
    <<"Standard", 2, "M", 224, 63, 38, 26, 16, 1, 44, 28, 0, 0, 0>>,
    <<"Standard", 2, "Q", 176, 48, 29, 20, 12, 1, 44, 22, 0, 0, 0>>,
    <<"Standard", 2, "H", 128, 34, 20, 14, 8, 1, 44, 16, 0, 0, 0>>,
    <<"Standard", 3, "L", 440, 127, 77, 53, 32, 1, 70, 55, 0, 0, 0>>,
    <<"Standard", 3, "M", 352, 101, 61, 42, 26, 1, 70, 44, 0, 0, 0>>,
    <<"Standard", 3, "Q", 272, 77, 47, 32, 20, 2, 35, 17, 0, 0, 0>>,
    <<"Standard", 3, "H", 208, 58, 35, 24, 15, 2, 35, 13, 0, 0, 0>>,
    <<"Standard", 4, "L", 640, 187, 114, 78, 48, 1, 100, 80, 0, 0, 0>>,
    <<"Standard", 4, "M", 512, 149, 90, 62, 38, 2, 50, 32, 0, 0, 0>>,
    <<"Standard", 4, "Q", 384, 111, 67, 46, 28, 2, 50, 24, 0, 0, 0>>,
    <<"Standard", 4, "H", 288, 82, 50, 34, 21, 4, 25, 9, 0, 0, 0>>,
    <<"Standard", 5, "L", 864, 255, 154, 106, 65, 1, 134, 108, 0, 0, 0>>,
    <<"Standard", 5, "M", 688, 202, 122, 84, 52, 2, 67, 43, 0, 0, 0>>,
    <<"Standard", 5, "Q", 496, 144, 87, 60, 37, 2, 33, 15, 2, 34, 16>>,
    <<"Standard", 5, "H", 368, 106, 64, 44, 27, 2, 33, 11, 2, 34, 12>>,
    <<"Standard", 6, "L", 1088, 322, 195, 134, 82, 2, 86, 68, 0, 0, 0>>,
    <<"Standard", 6, "M", 864, 255, 154, 106, 65, 4, 43, 27, 0, 0, 0>>,
    <<"Standard", 6, "Q", 608, 178, 108, 74, 45, 4, 43, 19, 0, 0, 0>>,
    <<"Standard", 6, "H", 480, 139, 84, 58, 36, 4, 43, 15, 0, 0, 0>>,
    <<"Standard", 7, "L", 1248, 370, 224, 154, 95, 2, 98, 78, 0, 0, 0>>,
    <<"Standard", 7, "M", 992, 293, 178, 122, 75, 4, 49, 31, 0, 0, 0>>,
    <<"Standard", 7, "Q", 704, 207, 125, 86, 53, 2, 32, 14, 4, 33, 15>>,
    <<"Standard", 7, "H", 528, 154, 93, 64, 39, 4, 39, 13, 1, 40, 14>>,
    <<"Standard", 8, "L", 1552, 461, 279, 192, 118, 2, 121, 97, 0, 0, 0>>,
    <<"Standard", 8, "M", 1232, 365, 221, 152, 93, 2, 60, 38, 2, 61, 39>>,
    <<"Standard", 8, "Q", 880, 259, 157, 108, 66, 4, 40, 18, 2, 41, 19>>,
    <<"Standard", 8, "H", 688, 202, 122, 84, 52, 4, 40, 14, 2, 41, 15>>,
    <<"Standard", 9, "L", 1856, 552, 335, 230, 141, 2, 146, 116, 0, 0, 0>>,
    <<"Standard", 9, "M", 1456, 432, 262, 180, 111, 3, 58, 36, 2, 59, 37>>,
    <<"Standard", 9, "Q", 1056, 312, 189, 130, 80, 4, 36, 16, 4, 37, 17>>,
    <<"Standard", 9, "H", 800, 235, 143, 98, 60, 4, 36, 12, 4, 37, 13>>,
    <<"Standard", 10, "L", 2192, 652, 395, 271, 167, 2, 86, 68, 2, 87, 69>>,
    <<"Standard", 10, "M", 1728, 513, 311, 213, 131, 4, 69, 43, 1, 70, 44>>,
    <<"Standard", 10, "Q", 1232, 364, 221, 151, 93, 6, 43, 19, 2, 44, 20>>,
    <<"Standard", 10, "H", 976, 288, 174, 119, 74, 6, 43, 15, 2, 44, 16>>,
    <<"Standard", 11, "L", 2592, 772, 468, 321, 198, 4, 101, 81, 0, 0, 0>>,
    <<"Standard", 11, "M", 2032, 604, 366, 251, 155, 1, 80, 50, 4, 81, 51>>,
    <<"Standard", 11, "Q", 1440, 427, 259, 177, 109, 4, 50, 22, 4, 51, 23>>,
    <<"Standard", 11, "H", 1120, 331, 200, 137, 85, 3, 36, 12, 8, 37, 13>>,
    <<"Standard", 12, "L", 2960, 883, 535, 367, 226, 2, 116, 92, 2, 117, 93>>,
    <<"Standard", 12, "M", 2320, 691, 419, 287, 177, 6, 58, 36, 2, 59, 37>>,
    <<"Standard", 12, "Q", 1648, 489, 296, 203, 125, 4, 46, 20, 6, 47, 21>>,
    <<"Standard", 12, "H", 1264, 374, 227, 155, 96, 7, 42, 14, 4, 43, 15>>,
    <<"Standard", 13, "L", 3424, 1022, 619, 425, 262, 4, 133, 107, 0, 0, 0>>,
    <<"Standard", 13, "M", 2672, 796, 483, 331, 204, 8, 59, 37, 1, 60, 38>>,
    <<"Standard", 13, "Q", 1952, 580, 352, 241, 149, 8, 44, 20, 4, 45, 21>>,
    <<"Standard", 13, "H", 1440, 427, 259, 177, 109, 12, 33, 11, 4, 34, 12>>,
    <<"Standard", 14, "L", 3688, 1101, 667, 458, 282, 3, 145, 115, 1, 146, 116>>,
    <<"Standard", 14, "M", 2920, 871, 528, 362, 223, 4, 64, 40, 5, 65, 41>>,
    <<"Standard", 14, "Q", 2088, 621, 376, 258, 159, 11, 36, 16, 5, 37, 17>>,
    <<"Standard", 14, "H", 1576, 468, 283, 194, 120, 11, 36, 12, 5, 37, 13>>,
    <<"Standard", 15, "L", 4184, 1250, 758, 520, 320, 5, 109, 87, 1, 110, 88>>,
    <<"Standard", 15, "M", 3320, 991, 600, 412, 254, 5, 65, 41, 5, 66, 42>>,
    <<"Standard", 15, "Q", 2360, 703, 426, 292, 180, 5, 54, 24, 7, 55, 25>>,
    <<"Standard", 15, "H", 1784, 530, 321, 220, 136, 11, 36, 12, 7, 37, 13>>,
    <<"Standard", 16, "L", 4712, 1408, 854, 586, 361, 5, 122, 98, 1, 123, 99>>,
    <<"Standard", 16, "M", 3624, 1082, 656, 450, 277, 7, 73, 45, 3, 74, 46>>,
    <<"Standard", 16, "Q", 2600, 775, 470, 322, 198, 15, 43, 19, 2, 44, 20>>,
    <<"Standard", 16, "H", 2024, 602, 365, 250, 154, 3, 45, 15, 13, 46, 16>>,
    <<"Standard", 17, "L", 5176, 1548, 938, 644, 397, 1, 135, 107, 5, 136, 108>>,
    <<"Standard", 17, "M", 4056, 1212, 734, 504, 310, 10, 74, 46, 1, 75, 47>>,
    <<"Standard", 17, "Q", 2936, 876, 531, 364, 224, 1, 50, 22, 15, 51, 23>>,
    <<"Standard", 17, "H", 2264, 674, 408, 280, 173, 2, 42, 14, 17, 43, 15>>,
    <<"Standard", 18, "L", 5768, 1725, 1046, 718, 442, 5, 150, 120, 1, 151, 121>>,
    <<"Standard", 18, "M", 4504, 1346, 816, 560, 345, 9, 69, 43, 4, 70, 44>>,
    <<"Standard", 18, "Q", 3176, 948, 574, 394, 243, 17, 50, 22, 1, 51, 23>>,
    <<"Standard", 18, "H", 2504, 746, 452, 310, 191, 2, 42, 14, 19, 43, 15>>,
    <<"Standard", 19, "L", 6360, 1903, 1153, 792, 488, 3, 141, 113, 4, 142, 114>>,
    <<"Standard", 19, "M", 5016, 1500, 909, 624, 384, 3, 70, 44, 11, 71, 45>>,
    <<"Standard", 19, "Q", 3560, 1063, 644, 442, 272, 17, 47, 21, 4, 48, 22>>,
    <<"Standard", 19, "H", 2728, 813, 493, 338, 208, 9, 39, 13, 16, 40, 14>>,
    <<"Standard", 20, "L", 6888, 2061, 1249, 858, 528, 3, 135, 107, 5, 136, 108>>,
    <<"Standard", 20, "M", 5352, 1600, 970, 666, 410, 3, 67, 41, 13, 68, 42>>,
    <<"Standard", 20, "Q", 3880, 1159, 702, 482, 297, 15, 54, 24, 5, 55, 25>>,
    <<"Standard", 20, "H", 3080, 919, 557, 382, 235, 15, 43, 15, 10, 44, 16>>,
    <<"Standard", 21, "L", 7456, 2232, 1352, 929, 572, 4, 144, 116, 4, 145, 117>>,
    <<"Standard", 21, "M", 5712, 1708, 1035, 711, 438, 17, 68, 42, 0, 0, 0>>,
    <<"Standard", 21, "Q", 4096, 1224, 742, 509, 314, 17, 50, 22, 6, 51, 23>>,
    <<"Standard", 21, "H", 3248, 969, 587, 403, 248, 19, 46, 16, 6, 47, 17>>,
    <<"Standard", 22, "L", 8048, 2409, 1460, 1003, 618, 2, 139, 111, 7, 140, 112>>,
    <<"Standard", 22, "M", 6256, 1872, 1134, 779, 480, 17, 74, 46, 0, 0, 0>>,
    <<"Standard", 22, "Q", 4544, 1358, 823, 565, 348, 7, 54, 24, 16, 55, 25>>,
    <<"Standard", 22, "H", 3536, 1056, 640, 439, 270, 34, 37, 13, 0, 0, 0>>,
    <<"Standard", 23, "L", 8752, 2620, 1588, 1091, 672, 4, 151, 121, 5, 152, 122>>,
    <<"Standard", 23, "M", 6880, 2059, 1248, 857, 528, 4, 75, 47, 14, 76, 48>>,
    <<"Standard", 23, "Q", 4912, 1468, 890, 611, 376, 11, 54, 24, 14, 55, 25>>,
    <<"Standard", 23, "H", 3712, 1108, 672, 461, 284, 16, 45, 15, 14, 46, 16>>,
    <<"Standard", 24, "L", 9392, 2812, 1704, 1171, 721, 6, 147, 117, 4, 148, 118>>,
    <<"Standard", 24, "M", 7312, 2188, 1326, 911, 561, 6, 73, 45, 14, 74, 46>>,
    <<"Standard", 24, "Q", 5312, 1588, 963, 661, 407, 11, 54, 24, 16, 55, 25>>,
    <<"Standard", 24, "H", 4112, 1228, 744, 511, 315, 30, 46, 16, 2, 47, 17>>,
    <<"Standard", 25, "L", 10208, 3057, 1853, 1273, 784, 8, 132, 106, 4, 133, 107>>,
    <<"Standard", 25, "M", 8000, 2395, 1451, 997, 614, 8, 75, 47, 13, 76, 48>>,
    <<"Standard", 25, "Q", 5744, 1718, 1041, 715, 440, 7, 54, 24, 22, 55, 25>>,
    <<"Standard", 25, "H", 4304, 1286, 779, 535, 330, 22, 45, 15, 13, 46, 16>>,
    <<"Standard", 26, "L", 10960, 3283, 1990, 1367, 842, 10, 142, 114, 2, 143, 115>>,
    <<"Standard", 26, "M", 8496, 2544, 1542, 1059, 652, 19, 74, 46, 4, 75, 47>>,
    <<"Standard", 26, "Q", 6032, 1804, 1094, 751, 462, 28, 50, 22, 6, 51, 23>>,
    <<"Standard", 26, "H", 4768, 1425, 864, 593, 365, 33, 46, 16, 4, 47, 17>>,
    <<"Standard", 27, "L", 11744, 3517, 2132, 1465, 902, 8, 152, 122, 4, 153, 123>>,
    <<"Standard", 27, "M", 9024, 2701, 1637, 1125, 692, 22, 73, 45, 3, 74, 46>>,
    <<"Standard", 27, "Q", 6464, 1933, 1172, 805, 496, 8, 53, 23, 26, 54, 24>>,
    <<"Standard", 27, "H", 5024, 1501, 910, 625, 385, 12, 45, 15, 28, 46, 16>>,
    <<"Standard", 28, "L", 12248, 3669, 2223, 1528, 940, 3, 147, 117, 10, 148, 118>>,
    <<"Standard", 28, "M", 9544, 2857, 1732, 1190, 732, 3, 73, 45, 23, 74, 46>>,
    <<"Standard", 28, "Q", 6968, 2085, 1263, 868, 534, 4, 54, 24, 31, 55, 25>>,
    <<"Standard", 28, "H", 5288, 1581, 958, 658, 405, 11, 45, 15, 31, 46, 16>>,
    <<"Standard", 29, "L", 13048, 3909, 2369, 1628, 1002, 7, 146, 116, 7, 147, 117>>,
    <<"Standard", 29, "M", 10136, 3035, 1839, 1264, 778, 21, 73, 45, 7, 74, 46>>,
    <<"Standard", 29, "Q", 7288, 2181, 1322, 908, 559, 1, 53, 23, 37, 54, 24>>,
    <<"Standard", 29, "H", 5608, 1677, 1016, 698, 430, 19, 45, 15, 26, 46, 16>>,
    <<"Standard", 30, "L", 13880, 4158, 2520, 1732, 1066, 5, 145, 115, 10, 146, 116>>,
    <<"Standard", 30, "M", 10984, 3289, 1994, 1370, 843, 19, 75, 47, 10, 76, 48>>,
    <<"Standard", 30, "Q", 7880, 2358, 1429, 982, 604, 15, 54, 24, 25, 55, 25>>,
    <<"Standard", 30, "H", 5960, 1782, 1080, 742, 457, 23, 45, 15, 25, 46, 16>>,
    <<"Standard", 31, "L", 14744, 4417, 2677, 1840, 1132, 13, 145, 115, 3, 146, 116>>,
    <<"Standard", 31, "M", 11640, 3486, 2113, 1452, 894, 2, 74, 46, 29, 75, 47>>,
    <<"Standard", 31, "Q", 8264, 2473, 1499, 1030, 634, 42, 54, 24, 1, 55, 25>>,
    <<"Standard", 31, "H", 6344, 1897, 1150, 790, 486, 23, 45, 15, 28, 46, 16>>,
    <<"Standard", 32, "L", 15640, 4686, 2840, 1952, 1201, 17, 145, 115, 0, 0, 0>>,
    <<"Standard", 32, "M", 12328, 3693, 2238, 1538, 947, 10, 74, 46, 23, 75, 47>>,
    <<"Standard", 32, "Q", 8920, 2670, 1618, 1112, 684, 10, 54, 24, 35, 55, 25>>,
    <<"Standard", 32, "H", 6760, 2022, 1226, 842, 518, 19, 45, 15, 35, 46, 16>>,
    <<"Standard", 33, "L", 16568, 4965, 3009, 2068, 1273, 17, 145, 115, 1, 146, 116>>,
    <<"Standard", 33, "M", 13048, 3909, 2369, 1628, 1002, 14, 74, 46, 21, 75, 47>>,
    <<"Standard", 33, "Q", 9368, 2805, 1700, 1168, 719, 29, 54, 24, 19, 55, 25>>,
    <<"Standard", 33, "H", 7208, 2157, 1307, 898, 553, 11, 45, 15, 46, 46, 16>>,
    <<"Standard", 34, "L", 17528, 5253, 3183, 2188, 1347, 13, 145, 115, 6, 146, 116>>,
    <<"Standard", 34, "M", 13800, 4134, 2506, 1722, 1060, 14, 74, 46, 23, 75, 47>>,
    <<"Standard", 34, "Q", 9848, 2949, 1787, 1228, 756, 44, 54, 24, 7, 55, 25>>,
    <<"Standard", 34, "H", 7688, 2301, 1394, 958, 590, 59, 46, 16, 1, 47, 17>>,
    <<"Standard", 35, "L", 18448, 5529, 3351, 2303, 1417, 12, 151, 121, 7, 152, 122>>,
    <<"Standard", 35, "M", 14496, 4343, 2632, 1809, 1113, 12, 75, 47, 26, 76, 48>>,
    <<"Standard", 35, "Q", 10288, 3081, 1867, 1283, 790, 39, 54, 24, 14, 55, 25>>,
    <<"Standard", 35, "H", 7888, 2361, 1431, 983, 605, 22, 45, 15, 41, 46, 16>>,
    <<"Standard", 36, "L", 19472, 5836, 3537, 2431, 1496, 6, 151, 121, 14, 152, 122>>,
    <<"Standard", 36, "M", 15312, 4588, 2780, 1911, 1176, 6, 75, 47, 34, 76, 48>>,
    <<"Standard", 36, "Q", 10832, 3244, 1966, 1351, 832, 46, 54, 24, 10, 55, 25>>,
    <<"Standard", 36, "H", 8432, 2524, 1530, 1051, 647, 2, 45, 15, 64, 46, 16>>,
    <<"Standard", 37, "L", 20528, 6153, 3729, 2563, 1577, 17, 152, 122, 4, 153, 123>>,
    <<"Standard", 37, "M", 15936, 4775, 2894, 1989, 1224, 29, 74, 46, 14, 75, 47>>,
    <<"Standard", 37, "Q", 11408, 3417, 2071, 1423, 876, 49, 54, 24, 10, 55, 25>>,
    <<"Standard", 37, "H", 8768, 2625, 1591, 1093, 673, 24, 45, 15, 46, 46, 16>>,
    <<"Standard", 38, "L", 21616, 6479, 3927, 2699, 1661, 4, 152, 122, 18, 153, 123>>,
    <<"Standard", 38, "M", 16816, 5039, 3054, 2099, 1292, 13, 74, 46, 32, 75, 47>>,
    <<"Standard", 38, "Q", 12016, 3599, 2181, 1499, 923, 48, 54, 24, 14, 55, 25>>,
    <<"Standard", 38, "H", 9136, 2735, 1658, 1139, 701, 42, 45, 15, 32, 46, 16>>,
    <<"Standard", 39, "L", 22496, 6743, 4087, 2809, 1729, 20, 147, 117, 4, 148, 118>>,
    <<"Standard", 39, "M", 17728, 5313, 3220, 2213, 1362, 40, 75, 47, 7, 76, 48>>,
    <<"Standard", 39, "Q", 12656, 3791, 2298, 1579, 972, 43, 54, 24, 22, 55, 25>>,
    <<"Standard", 39, "H", 9776, 2927, 1774, 1219, 750, 10, 45, 15, 67, 46, 16>>,
    <<"Standard", 40, "L", 23648, 7089, 4296, 2953, 1817, 19, 148, 118, 6, 149, 119>>,
    <<"Standard", 40, "M", 18672, 5596, 3391, 2331, 1435, 18, 75, 47, 31, 76, 48>>,
    <<"Standard", 40, "Q", 13328, 3993, 2420, 1663, 1024, 34, 54, 24, 34, 55, 25>>,
    <<"Standard", 40, "H", 10208, 3057, 1852, 1273, 784, 20, 45, 15, 61, 46, 16>>
  >>

TableRows == 1..Len(SYMBOL_CAPACITY_TABLE)

SymbolCapacity(row) ==
    [data_bits |-> row[4],
     chars |-> [Numeric |-> row[5], Alphanumeric |-> row[6],
                Bytes |-> row[7], Kanji |-> row[8]],
     block_def1 |-> [num_blocks |-> row[9], codewords |-> row[10],
                     data_codewords |-> row[11]],
     block_def2 |-> [num_blocks |-> row[12], codewords |-> row[13],
                     data_codewords |-> row[14]]]

\* the HashMap's keys: SymbolConfig(size, ecc)
HasCapacity(sz, ecc) ==
    \E r \in TableRows :
        /\ SYMBOL_CAPACITY_TABLE[r][1] = sz.kind
        /\ SYMBOL_CAPACITY_TABLE[r][2] = sz.v
        /\ SYMBOL_CAPACITY_TABLE[r][3] = ecc

\* SYMBOL_CAPACITY_TABLE[&SymbolConfig::new(s, ecc)]; indexing a HashMap
\* with a key it does not hold panics, so callers test HasCapacity first
lookup_capacity(sz, ecc) ==
    SymbolCapacity(SYMBOL_CAPACITY_TABLE[
        CHOOSE r \in TableRows :
            /\ SYMBOL_CAPACITY_TABLE[r][1] = sz.kind
            /\ SYMBOL_CAPACITY_TABLE[r][2] = sz.v
            /\ SYMBOL_CAPACITY_TABLE[r][3] = ecc])

\* a faulty variant, kept to show what the property rules out: counts the first group of blocks only
codewords_first_group(cap) ==
    cap.block_def1.num_blocks * cap.block_def1.codewords

\* a faulty variant, kept to show what the property rules out: counts the first group of blocks only
data_codewords_first_group(cap) ==
    cap.block_def1.num_blocks * cap.block_def1.data_codewords

\* a faulty variant, kept to show what the property rules out: takes the ECC codewords of the whole first group
ecc_words_per_block_of_group(cap) ==
    cap.block_def1.num_blocks
        * (cap.block_def1.codewords - cap.block_def1.data_codewords)

codewords(cap) ==
    cap.block_def1.num_blocks * cap.block_def1.codewords
      + cap.block_def2.num_blocks * cap.block_def2.codewords

data_codewords(cap) ==
    cap.block_def1.num_blocks * cap.block_def1.data_codewords
      + cap.block_def2.num_blocks * cap.block_def2.data_codewords

ecc_words(cap) == codewords(cap) - data_codewords(cap)

ecc_words_per_block(cap) == cap.block_def1.codewords - cap.block_def1.data_codewords

---------------------------------------------------------------------------
(* bitcoding.rs: the bit recorder                                          *)

Pow2(n) == 2 ^ n

\* the bits of value, most significant first, in a field of n bits
\* a function on 1..n as the sequence of its values
AsSeq(f) == SubSeq(f, 1, Len(f))

ToBits(n, value) == [i \in 1..n |-> (value \div Pow2(n - i)) % 2]

NewRecorder == [bits |-> <<>>, ok |-> TRUE]

Panicked(st) == [st EXCEPT !.ok = FALSE]

\* stream.write(bits, value).unwrap(): BitWrite::write returns an Err when
\* the value is too large for the given number of bits, and unwrap panics
StreamWrite(st, bits, value) ==
    IF ~st.ok THEN st
    ELSE IF bits > 32 \/ (bits < 32 /\ value >= Pow2(bits)) THEN Panicked(st)
    ELSE [st EXCEPT !.bits = @ \o ToBits(bits, value)]

written(st) == Len(st.bits)

---------------------------------------------------------------------------
(* bitcoding.rs: mode indicator, character count, the four data encoders   *)

write_mode_indicator(st, sz, ec) ==
    IF sz = Micro(1) THEN st
    ELSE IF sz = Micro(2) THEN
        CASE ec = "Numeric" -> StreamWrite(st, 1, 0)
          [] ec = "Alphanumeric" -> StreamWrite(st, 1, 1)
          [] OTHER -> Panicked(st)
    ELSE IF sz = Micro(3) THEN
        CASE ec = "Numeric" -> StreamWrite(st, 2, 0)
          [] ec = "Alphanumeric" -> StreamWrite(st, 2, 1)
          [] ec = "Bytes" -> StreamWrite(st, 2, 2)
          [] OTHER -> StreamWrite(st, 2, 3)
    ELSE IF sz = Micro(4) THEN
        CASE ec = "Numeric" -> StreamWrite(st, 3, 0)
          [] ec = "Alphanumeric" -> StreamWrite(st, 3, 1)
          [] ec = "Bytes" -> StreamWrite(st, 3, 2)
          [] OTHER -> StreamWrite(st, 3, 3)
    ELSE IF sz.kind = "Standard" THEN
        CASE ec = "Numeric" -> StreamWrite(st, 4, 1)
          [] ec = "Alphanumeric" -> StreamWrite(st, 4, 2)
          [] ec = "Bytes" -> StreamWrite(st, 4, 4)
          [] OTHER -> StreamWrite(st, 4, 8)
    ELSE Panicked(st)

write_charcount_indicator(st, count, sz, ec) ==
    StreamWrite(st, num_char_count_bits(ec, sz), count)

\* a faulty variant, kept to show what the property rules out: keeps the one-byte form up to 128
write_eci_header_upto128(st, assignment) ==
    LET s1 == StreamWrite(st, 4, 7)
    IN  IF assignment <= 128
        THEN StreamWrite(StreamWrite(s1, 1, 0), 7, assignment % 128)
        ELSE IF assignment >= 128 /\ assignment < 16384
        THEN StreamWrite(StreamWrite(s1, 2, 2), 14, assignment)
        ELSE StreamWrite(StreamWrite(s1, 3, 6), 21, assignment)

write_eci_header(st, assignment) ==
    LET s1 == StreamWrite(st, 4, 7)
    IN  IF assignment < 128
        THEN StreamWrite(StreamWrite(s1, 1, 0), 7, assignment)
        ELSE IF assignment >= 128 /\ assignment < 16384
        THEN StreamWrite(StreamWrite(s1, 2, 2), 14, assignment)
        ELSE StreamWrite(StreamWrite(s1, 3, 6), 21, assignment)

\* the state of an encoder loop: the recorder, the index i in the current
\* group and the value cur_code of the group
LoopState(st, i, cur_code) == [st |-> st, i |-> i, cur_code |-> cur_code]

\* one pass of the body of "for &l in input" of encode_numeric_data.
\* l - 0x30 is a u8 subtraction: below 0x30 it panics in a build with
\* overflow checks and wraps modulo 256 in one without
numeric_step(ls, l, checks) ==
    IF ~ls.st.ok THEN ls
    ELSE IF ~(l >= 48 \/ l <= 57) THEN [ls EXCEPT !.st = Panicked(@)]
    ELSE IF l < 48 /\ checks THEN [ls EXCEPT !.st = Panicked(@)]
    ELSE LET digit == (l - 48) % 256
             code == ls.cur_code * 10 + digit
         IN  IF ls.i + 1 = 3
             THEN LoopState(StreamWrite(ls.st, 10, code), 0, 0)
             ELSE LoopState(ls.st, ls.i + 1, code)

RECURSIVE numeric_loop(_, _, _, _)
numeric_loop(ls, input, k, checks) ==
    IF k > Len(input) THEN ls
    ELSE numeric_loop(numeric_step(ls, input[k], checks), input, k + 1, checks)

\* a faulty variant, kept to show what the property rules out: writes a last pair of digits in 8 bits
encode_numeric_data_pair8(st, input, checks) ==
    LET ls == numeric_loop(LoopState(st, 0, 0), input, 1, checks)
    IN  IF ls.i = 1 THEN StreamWrite(ls.st, 4, ls.cur_code)
        ELSE IF ls.i = 2 THEN StreamWrite(ls.st, 8, ls.cur_code)
        ELSE ls.st

encode_numeric_data(st, input, checks) ==
    LET ls == numeric_loop(LoopState(st, 0, 0), input, 1, checks)
    IN  IF ls.i = 1 THEN StreamWrite(ls.st, 4, ls.cur_code)
        ELSE IF ls.i = 2 THEN StreamWrite(ls.st, 7, ls.cur_code)
        ELSE ls.st

\* -1 stands for the panic of the match's last arm
map_alphanumeric(in_char) ==
    CASE in_char \in 48..57 -> in_char - 48
      [] in_char \in 65..90 -> in_char - 55
      [] in_char = 32 -> 36
      [] in_char = 36 -> 37
      [] in_char = 37 -> 38
      [] in_char = 42 -> 39
      [] in_char = 43 -> 40
      [] in_char = 45 -> 41
      [] in_char = 46 -> 42
      [] in_char = 47 -> 43
      [] in_char = 58 -> 44
      [] OTHER -> -1

\* a faulty variant, kept to show what the property rules out: weighs the first character of a pair by 44
alphanumeric_step_44(ls, l) ==
    IF ~ls.st.ok THEN ls
    ELSE IF map_alphanumeric(l) = -1 THEN [ls EXCEPT !.st = Panicked(@)]
    ELSE LET code == ls.cur_code * 44 + map_alphanumeric(l)
         IN  IF ls.i + 1 = 2
             THEN LoopState(StreamWrite(ls.st, 11, code), 0, 0)
             ELSE LoopState(ls.st, ls.i + 1, code)

alphanumeric_step(ls, l) ==
    IF ~ls.st.ok THEN ls
    ELSE IF map_alphanumeric(l) = -1 THEN [ls EXCEPT !.st = Panicked(@)]
    ELSE LET code == ls.cur_code * 45 + map_alphanumeric(l)
         IN  IF ls.i + 1 = 2
             THEN LoopState(StreamWrite(ls.st, 11, code), 0, 0)
             ELSE LoopState(ls.st, ls.i + 1, code)

RECURSIVE alphanumeric_loop(_, _, _)
alphanumeric_loop(ls, input, k) ==
    IF k > Len(input) THEN ls
    ELSE alphanumeric_loop(alphanumeric_step(ls, input[k]), input, k + 1)

encode_alphanumeric_data(st, input) ==
    LET ls == alphanumeric_loop(LoopState(st, 0, 0), input, 1)
    IN  IF ls.i = 1 THEN StreamWrite(ls.st, 6, ls.cur_code) ELSE ls.st

RECURSIVE encode_byte_data(_, _)
encode_byte_data(st, input) ==
    IF input = <<>> THEN st
    ELSE encode_byte_data(StreamWrite(st, 8, Head(input)), Tail(input))

\* a faulty variant, kept to show what the property rules out: subtracts 0xE040 in the second range
kanji_pair_e040(st, hi, lo) ==
    LET number == hi * 256 + lo
    IN  IF number >= 33088 /\ number <= 40956
        THEN LET n == number - 33088
             IN  StreamWrite(st, 13, (n \div 256) * 192 + (n % 256))
        ELSE IF number >= 57408 /\ number <= 60351
        THEN LET n == number - 57408
             IN  StreamWrite(st, 13, (n \div 256) * 192 + (n % 256))
        ELSE st

\* the body of "for p in input.chunks(2)" for one pair
kanji_pair(st, hi, lo) ==
    LET number == hi * 256 + lo
    IN  IF number >= 33088 /\ number <= 40956
        THEN LET n == number - 33088
             IN  StreamWrite(st, 13, (n \div 256) * 192 + (n % 256))
        ELSE IF number >= 57408 /\ number <= 60351
        THEN LET n == number - 49472
             IN  StreamWrite(st, 13, (n \div 256) * 192 + (n % 256))
        ELSE st

RECURSIVE kanji_loop(_, _, _)
kanji_loop(st, input, k) ==
    IF k > Len(input) THEN st
    ELSE kanji_loop(kanji_pair(st, input[k], input[k + 1]), input, k + 2)

encode_kanji_data(st, input) ==
    IF ~st.ok THEN st
    ELSE IF Len(input) % 2 # 0 THEN Panicked(st)
    ELSE kanji_loop(st, input, 1)

encode_data_segment(st, input, ec, sz, checks) ==
    LET s1 == write_mode_indicator(st, sz, ec)
    IN  CASE ec = "Numeric" ->
               encode_numeric_data(
                   write_charcount_indicator(s1, Len(input), sz, ec), input, checks)
          [] ec = "Alphanumeric" ->
               encode_alphanumeric_data(
                   write_charcount_indicator(s1, Len(input), sz, ec), input)
          [] ec = "Bytes" ->
               encode_byte_data(
                   write_charcount_indicator(s1, Len(input), sz, ec), input)
          [] OTHER ->
               encode_kanji_data(
                   write_charcount_indicator(s1, Len(input) \div 2, sz, ec), input)

---------------------------------------------------------------------------
(* bitcoding.rs: finalize_bitstream                                        *)

PAD_CODEWORDS == <<236, 17>>

PAD_BITS == <<ToBits(8, PAD_CODEWORDS[1]), ToBits(8, PAD_CODEWORDS[2])>>

\* a faulty variant, kept to show what the property rules out: starts the alternation with the second pad codeword
pad_codewords_from_second(st, bytes_left) ==
    [st EXCEPT !.bits = @ \o
        [j \in 1..(8 * bytes_left) |->
            PAD_BITS[((((j - 1) \div 8) + 1) % 2) + 1][((j - 1) % 8) + 1]]]

\* "for i in 0..bytes_left { stream.write(8, PAD_CODEWORDS[i % 2]) }"
pad_codewords(st, bytes_left) ==
    [st EXCEPT !.bits = @ \o
        [j \in 1..(8 * bytes_left) |->
            PAD_BITS[(((j - 1) \div 8) % 2) + 1][((j - 1) % 8) + 1]]]

\* stream.playback(&mut writer) into a Vec<u8>: the whole bytes of the
\* recorded bits, most significant bit first
RECURSIVE BitsValue(_, _, _)
BitsValue(bits, from, n) ==
    IF n = 0 THEN 0
    ELSE 2 * BitsValue(bits, from, n - 1) + bits[from + n - 1]

playback(st) == [j \in 1..(Len(st.bits) \div 8) |-> BitsValue(st.bits, 8 * (j - 1) + 1, 8)]

\* the result of a call of finalize_bitstream: fail names the place where
\* the call panicked ("none": it returned data_codewords); w_final is
\* stream.written() at the closing assert_eq!
FinResult(st, fail, w_final, words) ==
    [ok |-> fail = "none", fail |-> fail, stream |-> st,
     w_final |-> w_final, data_codewords |-> words]

NoFin == FinResult(NewRecorder, "not_called", 0, <<>>)

\* a faulty variant, kept to show what the property rules out: cuts a recorder that is too long down to the capacity
append_terminator_truncating(st, sz, bit_capacity) ==
    IF written(st) > bit_capacity
    THEN [st EXCEPT !.bits = SubSeq(@, 1, bit_capacity)]
    ELSE StreamWrite(st, Min(bit_capacity - written(st), terminator_length(sz)), 0)

\* the block "append terminator bits": the assert! on the recorded size,
\* then at most terminator_length zero bits
append_terminator(st, sz, bit_capacity) ==
    LET bit_rawdatasize == written(st)
    IN  IF ~(bit_rawdatasize <= bit_capacity) THEN Panicked(st)
        ELSE StreamWrite(st, Min(bit_capacity - bit_rawdatasize, terminator_length(sz)), 0)

\* a faulty variant, kept to show what the property rules out: pads to the next byte without the case of the last half codeword
align_to_byte_no_half(st, sz, bit_capacity) ==
    LET alignment == written(st) % 8
    IN  IF alignment > 0 THEN StreamWrite(st, 8 - alignment, 0) ELSE st

\* the block "pad with zeroes to next full byte"
align_to_byte(st, sz, bit_capacity) ==
    LET w == written(st)
        alignment == w % 8
    IN  IF alignment > 0
        THEN IF (sz = Micro(1) \/ sz = Micro(3)) /\ w + 4 > bit_capacity
             THEN StreamWrite(st, bit_capacity - w, 0)
             ELSE StreamWrite(st, 8 - alignment, 0)
        ELSE st

\* a faulty variant, kept to show what the property rules out: returns without the 4 bits that complete the last byte
finalize_tail_no_filler(st, sz, bit_capacity) ==
    LET bits_left == bit_capacity - written(st)
        half == sz = Micro(1) \/ sz = Micro(3)
    IN  IF half /\ bits_left > 0 /\ bits_left # 4
        THEN FinResult(st, "assert_bits_left_4", written(st), <<>>)
        ELSE IF ~(half /\ bits_left > 0) /\ bits_left # 0
        THEN FinResult(st, "assert_bits_left_0", written(st), <<>>)
        ELSE LET s4 == IF half /\ bits_left > 0 THEN StreamWrite(st, bits_left, 0) ELSE st
             IN  IF written(s4) # bit_capacity
                 THEN FinResult(s4, "assert_written", written(s4), <<>>)
                 ELSE FinResult(s4, "none", written(s4), playback(s4))

\* from "now truly the only thing left" to the end
finalize_tail(st, sz, bit_capacity) ==
    LET bits_left == bit_capacity - written(st)
        half == sz = Micro(1) \/ sz = Micro(3)
    IN  IF half /\ bits_left > 0 /\ bits_left # 4
        THEN FinResult(st, "assert_bits_left_4", written(st), <<>>)
        ELSE IF ~(half /\ bits_left > 0) /\ bits_left # 0
        THEN FinResult(st, "assert_bits_left_0", written(st), <<>>)
        ELSE LET s4 == IF half /\ bits_left > 0 THEN StreamWrite(st, bits_left, 0) ELSE st
             IN  IF written(s4) # bit_capacity
                 THEN FinResult(s4, "assert_written", written(s4), <<>>)
                 ELSE LET s5 == IF half THEN StreamWrite(s4, 4, 0) ELSE s4
                      IN  FinResult(s5, "none", written(s4), playback(s5))

finalize_bitstream(st, sz, ecl) ==
    IF ~HasCapacity(sz, ecl) THEN FinResult(st, "lookup_capacity", written(st), <<>>)
    ELSE
    LET bit_capacity == lookup_capacity(sz, ecl).data_bits
        s1 == append_terminator(st, sz, bit_capacity)
    IN  IF ~s1.ok
        THEN FinResult(s1, "assert_too_many_bits", written(s1), <<>>)
        ELSE
        LET s2 == align_to_byte(s1, sz, bit_capacity)
        IN  IF ~s2.ok THEN FinResult(s2, "write", written(s2), <<>>)
            ELSE IF written(s2) > bit_capacity
            THEN FinResult(s2, "sub_overflow", written(s2), <<>>)
            ELSE
            LET bytes_left == (bit_capacity - written(s2)) \div 8
                s3 == pad_codewords(s2, bytes_left)
            IN  finalize_tail(s3, sz, bit_capacity)

---------------------------------------------------------------------------
(* The callers' inputs.                                                    *)

\* the payloads of the tests of bitcoding.rs, continued cyclically
BaseBytes(ec) ==
    CASE ec = "Numeric" -> <<48, 49, 50, 51, 52, 53, 54, 55, 56, 57>>
      [] ec = "Alphanumeric" -> <<65, 67, 45, 52, 50>>
      [] ec = "Bytes" -> <<65, 0, 255, 127>>
      [] OTHER -> <<147, 95, 228, 170>>

Base(ec, n) == [i \in 1..n |-> BaseBytes(ec)[((i - 1) % Len(BaseBytes(ec))) + 1]]

\* bytes at and around the edges of each mode's alphabet
Alphabet(ec) ==
    CASE ec = "Numeric" -> {48, 57, 58, 47, 65, 255}
      [] ec = "Alphanumeric" -> {48, 90, 32, 58, 97, 35}
      [] ec = "Bytes" -> {0, 255}
      [] OTHER -> {129, 64, 63, 159, 252, 253, 224, 235, 191, 192, 160}

BasePayloads(ec) == {Base(ec, n) : n \in 0..MaxLen}

ShortPayloads(ec) == {Base(ec, n) : n \in 0..MaxVarLen}

VariantPayloads(ec) ==
    UNION {{[Base(ec, n) EXCEPT ![p] = b] : p \in 1..n, b \in Alphabet(ec)} :
               n \in 1..MaxVarLen}

FreePayloads(ec) == UNION {[1..n -> Alphabet(ec)] : n \in 0..MaxFree}

Payloads(ec) == BasePayloads(ec) \cup VariantPayloads(ec) \cup FreePayloads(ec)

\* the ECI assignments at the edges of the three forms of the header
Assignments == {0, 127, 128, 16383, 16384, 999999}

\* sizes of every width of the mode and character count indicators
SegmentSizes == {Micro(i) : i \in 1..4} \cup {Standard(1)}

NoCall == [op |-> "none", input |-> <<>>, ec |-> "none", assignment |-> 0, before |-> <<>>]

NoSym == [phase |-> "none"]

---------------------------------------------------------------------------
(* config.rs: the symbol configuration strings. A string is the sequence   *)
(* of its characters.                                                       *)

DIGITS == <<"0", "1", "2", "3", "4", "5", "6", "7", "8", "9">>

IsDigitChar(c) == \E i \in 1..10 : DIGITS[i] = c

DigitValue(c) == (CHOOSE i \in 1..10 : DIGITS[i] = c) - 1

\* the value of a string of decimal digits
RECURSIVE digits_value(_)
digits_value(s) ==
    IF s = <<>> THEN 0
    ELSE 10 * digits_value(SubSeq(s, 1, Len(s) - 1)) + DigitValue(s[Len(s)])

\* str::parse::<u8>: an optional plus sign, then one or more decimal
\* digits, leading zeros among them, of a value up to 255; -1 stands for
\* Err
parse_u8(s) ==
    LET digits == IF s # <<>> /\ s[1] = "+" THEN Tail(s) ELSE s
    IN  IF digits = <<>> THEN -1
        ELSE IF \E i \in 1..Len(digits) : ~IsDigitChar(digits[i]) THEN -1
        ELSE IF digits_value(digits) > 255 THEN -1
        ELSE digits_value(digits)

\* str::split("-"): the parts between the dashes, at least one part
RECURSIVE split_dash(_)
split_dash(decl) ==
    IF \A i \in 1..Len(decl) : decl[i] # "-" THEN <<decl>>
    ELSE LET i == CHOOSE i \in 1..Len(decl) :
                      decl[i] = "-" /\ \A j \in 1..(i - 1) : decl[j] # "-"
         IN  <<SubSeq(decl, 1, i - 1)>> \o split_dash(SubSeq(decl, i + 1, Len(decl)))

\* the outcome of a from_str: ok = FALSE after a panic
Parsed(value) == [ok |-> TRUE, value |-> value]
ParsePanic == [ok |-> FALSE, value |-> "none"]

\* Size::from_str
size_from_str(decl) ==
    IF decl # <<>> /\ decl[1] = "M"
    THEN (IF Tail(decl) \in {<<"1">>, <<"2">>, <<"3">>, <<"4">>}
          THEN Parsed(Micro(DigitValue(decl[2])))
          ELSE ParsePanic)
    ELSE IF parse_u8(decl) # -1
    THEN (IF parse_u8(decl) >= 1 /\ parse_u8(decl) <= 40
          THEN Parsed(Standard(parse_u8(decl)))
          ELSE ParsePanic)
    ELSE ParsePanic

\* ECCLevel::from_str
ecc_level_from_str(desc) ==
    IF desc \in {<<"L">>, <<"M">>, <<"Q">>, <<"H">>}
    THEN Parsed(desc[1])
    ELSE ParsePanic

\* SymbolConfig::from_str: next_tuple takes the first two parts and leaves
\* the others; unwrap panics when there is one part only
symbol_config_from_str(decl) ==
    LET parts == split_dash(decl)
    IN  IF Len(parts) < 2 THEN ParsePanic
        ELSE LET s == size_from_str(parts[1])
                 e == ecc_level_from_str(parts[2])
             IN  IF s.ok /\ e.ok
                 THEN Parsed([size |-> s.value, level |-> e.value])
                 ELSE ParsePanic

\* the decimal digits of a number below 1000, without leading zeros
Decimal(n) ==
    IF n < 10 THEN <<DIGITS[n + 1]>>
    ELSE IF n < 100 THEN <<DIGITS[(n \div 10) + 1], DIGITS[(n % 10) + 1]>>
    ELSE <<DIGITS[(n \div 100) + 1], DIGITS[((n \div 10) % 10) + 1], DIGITS[(n % 10) + 1]>>

\* the size strings given to the parser: every version from 0 to MaxParsed
\* as a Micro and as a Standard size, and strings that are no plain number
MaxParsed == 41
SizeStrings ==
    {Decimal(n) : n \in 0..MaxParsed}
        \cup {<<"M">> \o Decimal(n) : n \in 0..MaxParsed}
        \cup {<<>>, <<"M">>, <<"m", "1">>, <<"M", "0", "1">>, <<"M", "+", "1">>,
              <<"+", "5">>, <<"0", "5">>, <<"0", "4", "0">>, <<"+">>, <<"+", "4", "1">>,
              <<"2", "5", "5">>, <<"2", "5", "6">>, <<"1", "x">>, <<" ", "1">>}

LevelStrings ==
    {<<"L">>, <<"M">>, <<"Q">>, <<"H">>, <<>>, <<"l">>, <<"X">>, <<"L", "L">>, <<"L", " ">>}

\* size-level strings, strings without a dash and strings with a third part
ConfigStrings ==
    {s \o <<"-">> \o e : s \in SizeStrings, e \in LevelStrings}
        \cup {<<>>, <<"1">>, <<"M", "1">>, <<"1", "L">>}
        \cup {<<"1", "-", "L", "-", "x">>, <<"M", "2", "-", "M", "-">>, <<"-", "1", "-", "L">>}

InitParse ==
    /\ pc = "new"
    /\ overflow_checks \in BOOLEAN
    /\ size = Standard(1)
    /\ stream = NewRecorder
    /\ call = NoCall
    /\ fin = NoFin
    /\ sym = NoSym

\* what SymbolConfig::from_str left
ParseState(parsed) ==
    [phase |-> "parse", ok |-> parsed.ok, config |-> parsed.value]

SymbolConfigFromStr(decl) ==
    /\ pc = "new"
    /\ sym' = ParseState(symbol_config_from_str(decl))
    /\ call' = [NoCall EXCEPT !.op = "parse", !.input = decl]
    /\ pc' = IF sym'.ok THEN "parsed" ELSE "panic"
    /\ UNCHANGED <<overflow_checks, size, stream, fin>>

NextParse == \E decl \in ConfigStrings : SymbolConfigFromStr(decl)

SpecParse == InitParse /\ [][NextParse]_vars

---------------------------------------------------------------------------
(* The bitstream encoder as its callers drive it: a new recorder, ECI      *)
(* headers, a data segment, finalize_bitstream.                            *)

Init ==
    /\ pc = "new"
    /\ overflow_checks \in BOOLEAN
    /\ size \in SegmentSizes
    /\ stream = NewRecorder
    /\ call = NoCall
    /\ fin = NoFin
    /\ sym = NoSym

WriteEciHeader(assignment) ==
    /\ pc \in {"new", "eci"}
    /\ stream' = write_eci_header(stream, assignment)
    /\ call' = [op |-> "eci", input |-> <<>>, ec |-> "none",
                assignment |-> assignment, before |-> stream.bits]
    /\ pc' = IF pc = "new" THEN "eci" ELSE "eci2"
    /\ UNCHANGED <<overflow_checks, size, fin, sym>>

\* the caller writes n bits of its own (1, 0, 1, ...) with stream.write
RecorderWrite(n) ==
    /\ pc = "new"
    /\ stream' = [stream EXCEPT !.bits = @ \o [i \in 1..n |-> i % 2]]
    /\ call' = [op |-> "raw", input |-> <<>>, ec |-> "none",
                assignment |-> n, before |-> stream.bits]
    /\ pc' = "raw"
    /\ UNCHANGED <<overflow_checks, size, fin, sym>>

EncodeDataSegment(input, ec) ==
    /\ pc \in {"new", "eci"}
    /\ pc = "eci" => input \in ShortPayloads(ec)
    /\ stream' = encode_data_segment(stream, input, ec, size, overflow_checks)
    /\ call' = [op |-> "segment", input |-> input, ec |-> ec,
                assignment |-> 0, before |-> stream.bits]
    /\ pc' = IF stream'.ok THEN "segment" ELSE "panic"
    /\ UNCHANGED <<overflow_checks, size, fin, sym>>

FinalizeBitstream(ecl) ==
    /\ pc \in {"new", "eci", "eci2", "raw", "segment"}
    /\ fin' = finalize_bitstream(stream, size, ecl)
    /\ stream' = fin'.stream
    /\ call' = [op |-> "finalize", input |-> <<>>, ec |-> ecl,
                assignment |-> 0, before |-> stream.bits]
    /\ pc' = "final"
    /\ UNCHANGED <<overflow_checks, size, sym>>

Next ==
    \/ \E a \in Assignments : WriteEciHeader(a)
    \/ \E n \in 1..MaxRaw : RecorderWrite(n)
    \/ \E ec \in Encodings : \E input \in Payloads(ec) : EncodeDataSegment(input, ec)
    \/ \E ecl \in ECCLevels : FinalizeBitstream(ecl)

Spec == Init /\ [][Next]_vars

\* The segment writer alone, for a size of every row of the table of
\* character count indicator widths: ECI headers and a data segment.
HeaderSizes == SegmentSizes \cup {Standard(9), Standard(10), Standard(26), Standard(27), Standard(40)}

InitHeader ==
    /\ pc = "new"
    /\ overflow_checks \in BOOLEAN
    /\ size \in HeaderSizes
    /\ stream = NewRecorder
    /\ call = NoCall
    /\ fin = NoFin
    /\ sym = NoSym

NextHeader ==
    \/ \E a \in Assignments : WriteEciHeader(a)
    \/ \E ec \in Encodings : \E input \in Payloads(ec) : EncodeDataSegment(input, ec)

SpecHeader == InitHeader /\ [][NextHeader]_vars

---------------------------------------------------------------------------
(* Properties of the bitstream encoder (specification Spec).               *)

\* the last call was encode_data_segment / finalize_bitstream
AfterSegment == call.op = "segment"
AfterFinalize == call.op = "finalize"

IsDigit(b) == b \in 48..57
AllDigits(input) == \A i \in 1..Len(input) : IsDigit(input[i])

\* the 45 characters of the alphanumeric set in the order of their codes:
\* 0-9, A-Z, space, $, %, *, +, -, ., /, :
AlnumCharset ==
    [i \in 1..10 |-> 47 + i] \o [i \in 1..26 |-> 64 + i]
        \o <<32, 36, 37, 42, 43, 45, 46, 47, 58>>
AlnumCode(b) == (CHOOSE i \in 1..Len(AlnumCharset) : AlnumCharset[i] = b) - 1
IsAlnum(b) == \E i \in 1..Len(AlnumCharset) : AlnumCharset[i] = b
AllAlnum(input) == \A i \in 1..Len(input) : IsAlnum(input[i])

\* the bits of a byte sequence, each byte most significant bit first
BytesBits(bytes) ==
    AsSeq([j \in 1..(8 * Len(bytes)) |-> (bytes[((j - 1) \div 8) + 1] \div Pow2(7 - ((j - 1) % 8))) % 2])

\* the bits the last encode_data_segment appended after the mode and
\* character count indicators
HeaderLen == num_mode_indicator_bits(size) + num_char_count_bits(call.ec, size)
DataPart == SubSeq(stream.bits, Len(call.before) + HeaderLen + 1, Len(stream.bits))
CountFits == Len(call.input) < Pow2(num_char_count_bits(call.ec, size))

\* the data-bit capacity of (size, the level finalize_bitstream was given)
Cap == lookup_capacity(size, call.ec).data_bits

\* Numeric packing as the standard states it: 10 bits per three digits,
\* 7 bits for a last pair, 4 bits for a last single digit
RECURSIVE NumericPacking(_)
NumericPacking(input) ==
    LET d(i) == input[i] - 48
    IN  CASE Len(input) = 0 -> <<>>
          [] Len(input) = 1 -> ToBits(4, d(1))
          [] Len(input) = 2 -> ToBits(7, 10 * d(1) + d(2))
          [] OTHER -> ToBits(10, 100 * d(1) + 10 * d(2) + d(3))
                        \o NumericPacking(SubSeq(input, 4, Len(input)))

\* Alphanumeric packing as the standard states it: 11 bits per pair of
\* characters, 6 bits for a last single character
RECURSIVE AlnumPacking(_)
AlnumPacking(input) ==
    CASE Len(input) = 0 -> <<>>
      [] Len(input) = 1 -> ToBits(6, AlnumCode(input[1]))
      [] OTHER -> ToBits(11, 45 * AlnumCode(input[1]) + AlnumCode(input[2]))
                    \o AlnumPacking(SubSeq(input, 3, Len(input)))

\* C2: for every (size, ECC) of the capacity table and every recorder that
\* holds w <= cap bits, finalize_bitstream runs to its end, no assertion of
\* it fails, and the recorded bit count at the closing assertion is cap.
C2_FinalizeFillsCapacity ==
    (AfterFinalize /\ HasCapacity(size, call.ec) /\ Len(call.before) <= Cap)
        => /\ fin.ok
           /\ fin.fail = "none"
           /\ fin.w_final = Cap
           /\ Len(fin.stream.bits)
                 = Cap + (IF size \in {Micro(1), Micro(3)} THEN 4 ELSE 0)

\* a Micro(3) recorder one bit short of capacity, finalized
C2_Witness ==
    /\ AfterFinalize /\ size = Micro(3) /\ HasCapacity(size, call.ec)
    /\ Len(call.before) + 1 = Cap
    /\ fin.ok

\* C4: Numeric mode rejects every payload that holds a byte outside the
\* ASCII digits: the call fails and no digit is packed.
C4_NumericRejectsNonDigits ==
    (AfterSegment /\ call.ec = "Numeric" /\ ~AllDigits(call.input))
        => ~stream.ok

\* C5: Kanji mode rejects every even-length payload that holds a pair
\* outside both [0x8140, 0x9FFC] and [0xE040, 0xEBBF].
KanjiInRange(hi, lo) ==
    LET n == hi * 256 + lo
    IN  (n >= 33088 /\ n <= 40956) \/ (n >= 57408 /\ n <= 60351)

C5_KanjiRejectsOutOfRange ==
    (/\ AfterSegment /\ call.ec = "Kanji" /\ Len(call.input) % 2 = 0
     /\ \E k \in 1..(Len(call.input) \div 2) :
            ~KanjiInRange(call.input[2 * k - 1], call.input[2 * k]))
        => ~stream.ok

\* C6: an illegal (size, ECC) pair and a data mode the size does not
\* support (Micro(1): Numeric only, Micro(2): Numeric and Alphanumeric
\* only) make the call fail.
ModeSupported(sz, ec) ==
    CASE sz = Micro(1) -> ec = "Numeric"
      [] sz = Micro(2) -> ec \in {"Numeric", "Alphanumeric"}
      [] OTHER -> TRUE

C6_UnsupportedConfigurationFails ==
    /\ (AfterSegment /\ ~ModeSupported(size, call.ec)) => ~stream.ok
    /\ (AfterFinalize /\ ~HasCapacity(size, call.ec)) => ~fin.ok

\* C7: finalize_bitstream fails and returns no codewords whenever the
\* recorder holds more bits than the capacity; it leaves the recorded bits
\* as they are.
C7_TooManyBitsFails ==
    (AfterFinalize /\ HasCapacity(size, call.ec) /\ Len(call.before) > Cap)
        => /\ ~fin.ok
           /\ fin.data_codewords = <<>>
           /\ fin.stream.bits = call.before

\* a recorder that holds more bits than the capacity, finalized
C7_Witness ==
    /\ AfterFinalize /\ HasCapacity(size, call.ec)
    /\ Len(call.before) > Cap
    /\ ~fin.ok

\* C8: when encode_data_segment fails the recorder holds exactly the bits
\* it held before the call.
C8_NoBitsOnFailure ==
    (AfterSegment /\ ~stream.ok) => stream.bits = call.before

\* C9: for every sequence of ASCII digits encode_data_segment appends,
\* after the indicators, the standard's numeric packing of the digits,
\* floor((10n+2)/3) bits for n digits; "01234567" for Standard(1) gives
\* 0x10 0x20 0x0C 0x56 0x61 and one more bit 1.
C9_NumericPacking ==
    (AfterSegment /\ call.ec = "Numeric" /\ AllDigits(call.input))
        => /\ CountFits => stream.ok
           /\ stream.ok =>
                /\ SubSeq(stream.bits, 1, Len(call.before)) = call.before
                /\ DataPart = NumericPacking(call.input)
                /\ Len(DataPart) = (10 * Len(call.input) + 2) \div 3
                /\ Len(DataPart) = num_encoded_bits("Numeric", Len(call.input))
                /\ (size = Standard(1) /\ call.before = <<>>
                        /\ call.input = <<48, 49, 50, 51, 52, 53, 54, 55>>)
                     => stream.bits = BytesBits(<<16, 32, 12, 86, 97>>) \o <<1>>

\* "01234567" encoded for Standard(1): two triplets and a pair
C9_Witness ==
    /\ AfterSegment /\ call.ec = "Numeric" /\ size = Standard(1)
    /\ call.input = <<48, 49, 50, 51, 52, 53, 54, 55>>
    /\ stream.ok

\* map_alphanumeric gives every byte of the set its code and no other byte
\* a code
MapAgreesWithCharset ==
    \A b \in 0..255 :
        map_alphanumeric(b) = IF IsAlnum(b) THEN AlnumCode(b) ELSE -1

\* C10: every character of the alphanumeric set maps to its code, a
\* payload over the set is packed 11 bits per pair (first * 45 + second)
\* and 6 bits for a last character, and a byte outside the set makes the
\* call fail; "AC-42" for Standard(1) gives 0x20 0x29 0xCE 0xE7 0x21 and
\* one more bit 0.
C10_AlphanumericPacking ==
    /\ MapAgreesWithCharset
    /\ (AfterSegment /\ call.ec = "Alphanumeric" /\ ~AllAlnum(call.input))
          => ~stream.ok
    /\ (AfterSegment /\ call.ec = "Alphanumeric" /\ AllAlnum(call.input))
          => /\ CountFits => stream.ok
             /\ stream.ok =>
                  /\ SubSeq(stream.bits, 1, Len(call.before)) = call.before
                  /\ DataPart = AlnumPacking(call.input)
                  /\ (size = Standard(1) /\ call.before = <<>>
                          /\ call.input = <<65, 67, 45, 52, 50>>)
                       => stream.bits = BytesBits(<<32, 41, 206, 231, 33>>) \o <<0>>

\* "AC-42" encoded for Standard(1): two pairs and a last character
C10_Witness ==
    /\ AfterSegment /\ call.ec = "Alphanumeric" /\ size = Standard(1)
    /\ call.input = <<65, 67, 45, 52, 50>>
    /\ stream.ok

\* every pair of an even-length payload lies in one of the two ranges
AllKanji(input) ==
    /\ Len(input) % 2 = 0
    /\ \A k \in 1..(Len(input) \div 2) : KanjiInRange(input[2 * k - 1], input[2 * k])

\* Kanji packing as the standard states it: 0x8140 is subtracted from a
\* character in [0x8140, 0x9FFC] and 0xC140 from one in [0xE040, 0xEBBF],
\* the most significant byte of the result is multiplied by 0xC0 and the
\* least significant byte added
KanjiCode(n) ==
    LET m == IF n <= 40956 THEN n - 33088 ELSE n - 49472
    IN  (m \div 256) * 192 + (m % 256)

RECURSIVE KanjiPacking(_)
KanjiPacking(input) ==
    IF Len(input) < 2 THEN <<>>
    ELSE ToBits(13, KanjiCode(input[1] * 256 + input[2]))
           \o KanjiPacking(SubSeq(input, 3, Len(input)))

CharCountWidth(sz, ec) ==
    LET row == IF sz.kind = "Micro"
               THEN CASE sz.v = 1 -> <<3, 0, 0, 0>>
                      [] sz.v = 2 -> <<4, 3, 0, 0>>
                      [] sz.v = 3 -> <<5, 4, 4, 3>>
                      [] OTHER -> <<6, 5, 5, 4>>
               ELSE CASE sz.v <= 9 -> <<10, 9, 8, 8>>
                      [] sz.v <= 26 -> <<12, 11, 16, 10>>
                      [] OTHER -> <<14, 13, 16, 12>>
    IN  CASE ec = "Numeric" -> row[1]
          [] ec = "Alphanumeric" -> row[2]
          [] ec = "Bytes" -> row[3]
          [] OTHER -> row[4]

\* the mode indicator of the standard: 4 bits for a Standard symbol, the
\* low k - 1 bits of the mode's number for Micro(k)
ModeIndicator(sz, ec) ==
    IF sz.kind = "Standard"
    THEN CASE ec = "Numeric" -> <<0, 0, 0, 1>>
           [] ec = "Alphanumeric" -> <<0, 0, 1, 0>>
           [] ec = "Bytes" -> <<0, 1, 0, 0>>
           [] OTHER -> <<1, 0, 0, 0>>
    ELSE LET number == CASE ec = "Numeric" -> 0
                         [] ec = "Alphanumeric" -> 1
                         [] ec = "Bytes" -> 2
                         [] OTHER -> 3
         IN  AsSeq(ToBits(sz.v - 1, number % Pow2(sz.v - 1)))

\* num_char_count_bits and num_mode_indicator_bits give the widths of the
\* standard for every size and every mode the size has an entry for
WidthsAgreeWithTable ==
    \A sz \in {Micro(i) : i \in 1..4} \cup {Standard(i) : i \in 1..40} :
        /\ num_mode_indicator_bits(sz) = IF sz.kind = "Micro" THEN sz.v - 1 ELSE 4
        /\ \A ec \in Encodings :
              CharCountWidth(sz, ec) # 0
                  => num_char_count_bits(ec, sz) = CharCountWidth(sz, ec)

\* the number the character count indicator holds
CharCount(input, ec) == IF ec = "Kanji" THEN Len(input) \div 2 ELSE Len(input)

AfterEci == call.op = "eci"

\* the leading bits of the three forms of an ECI assignment and the
\* number of value bits that follow them
EciPrefix(assignment) ==
    CASE assignment < 128 -> <<0>>
      [] assignment >= 128 /\ assignment < 16384 -> <<1, 0>>
      [] OTHER -> <<1, 1, 0>>

EciValueBits(assignment) ==
    CASE assignment < 128 -> 7
      [] assignment >= 128 /\ assignment < 16384 -> 14
      [] OTHER -> 21

\* C13: for an assignment below 1,000,000 write_eci_header appends 0111,
\* then 0 and 7 value bits (below 128), 10 and 14 value bits (below
\* 16384) or 110 and 21 value bits, the value bits holding the
\* assignment; the header is 12, 20 or 28 bits long and the bits recorded
\* before the call stay as they were.
C13_EciHeader ==
    (AfterEci /\ call.assignment < 1000000)
        => LET old == Len(call.before)
               prefix == EciPrefix(call.assignment)
               n == EciValueBits(call.assignment)
           IN  /\ stream.ok
               /\ SubSeq(stream.bits, 1, old) = call.before
               /\ SubSeq(stream.bits, old + 1, old + 4) = <<0, 1, 1, 1>>
               /\ SubSeq(stream.bits, old + 5, old + 4 + Len(prefix)) = prefix
               /\ Len(stream.bits) = old + 4 + Len(prefix) + n
               /\ BitsValue(stream.bits, old + 4 + Len(prefix) + 1, n) = call.assignment
               /\ Len(stream.bits) - old \in {12, 20, 28}
               /\ Len(stream.bits) - old = 12 <=> call.assignment < 128
               /\ Len(stream.bits) - old = 28 <=> call.assignment >= 16384

\* a second header, in the 14-bit form with the smallest assignment of
\* that form, written after a first one
C13_Witness ==
    /\ AfterEci /\ stream.ok
    /\ call.assignment = 128
    /\ Len(call.before) > 0
    /\ Len(stream.bits) = Len(call.before) + 20

---------------------------------------------------------------------------
(* serialization.rs: the canvas.  An image is a sequence of rows, the pixel *)
(* (x, y) of the code being img[y + 1][x + 1].                              *)

MARKER_ENCODING_REGION == 100
MARKER_FORMAT_INFORMATION == 120
MARKER_VERSION_INFORMATION == 140
BIT_WHITE == 255
BIT_BLACK == 0

Px(img, x, y) == img[y + 1][x + 1]
SetPx(img, x, y, v) == [img EXCEPT ![y + 1][x + 1] = v]
Width(img) == Len(img)
Height(img) == Len(img)

Abs(a) == IF a < 0 THEN -a ELSE a
Max(a, b) == IF a >= b THEN a ELSE b

\* the pixel (x, y) of the 9 x 9 finder pattern with its separator
create_finder_pattern(x, y) ==
    LET r == Max(Abs(x - 4), Abs(y - 4))
    IN  IF r < 2 \/ r = 3 THEN BIT_BLACK ELSE BIT_WHITE

\* the pixel (x, y) of the 5 x 5 alignment pattern
create_alignment_pattern(x, y) ==
    LET r == Max(Abs(x - 2), Abs(y - 2))
    IN  IF r % 2 = 0 THEN BIT_BLACK ELSE BIT_WHITE

\* the coordinate list with the second coordinate of versions 14 to 20
\* kept at 26
create_alignment_pattern_coord_list_fixed_second(v) ==
    <<6>> \o
    (IF v >= 2 /\ v < 7 THEN <<(v - 2) * 4 + 18>>
     ELSE IF v >= 7 /\ v < 14 THEN <<(v - 7) * 2 + 22, (v - 7) * 4 + 38>>
     ELSE IF v >= 14 /\ v < 21 THEN
        LET a == 26
            b == (v - 14) * 4 + 66
        IN  <<a, (a + b) \div 2, b>>
     ELSE IF v >= 21 /\ v < 28 THEN
        LET b == ((v - 21) \div 2) * 4 + 50
            d == (v - 21) * 4 + 94
        IN  <<(<<28, 26, 30, 28, 32, 30, 34>>)[v - 20], b, (b + d) \div 2, d>>
     ELSE IF v >= 28 /\ v < 35 THEN
        (<< <<26, 50, 74, 98, 122>>, <<30, 54, 78, 102, 126>>,
            <<26, 52, 78, 104, 130>>, <<30, 56, 82, 108, 134>>,
            <<34, 60, 86, 112, 138>>, <<30, 58, 86, 114, 142>>,
            <<34, 62, 90, 118, 146>> >>)[v - 27]
     ELSE IF v >= 35 /\ v <= 40 THEN
        (<< <<30, 54, 78, 102, 126, 150>>, <<24, 50, 76, 102, 128, 154>>,
            <<28, 54, 80, 106, 132, 158>>, <<32, 58, 84, 110, 136, 162>>,
            <<26, 54, 82, 110, 138, 166>>, <<30, 58, 86, 114, 142, 170>> >>)[v - 34]
     ELSE <<>>)

create_alignment_pattern_coord_list(v) ==
    <<6>> \o
    (IF v >= 2 /\ v < 7 THEN <<(v - 2) * 4 + 18>>
     ELSE IF v >= 7 /\ v < 14 THEN <<(v - 7) * 2 + 22, (v - 7) * 4 + 38>>
     ELSE IF v >= 14 /\ v < 21 THEN
        LET a == ((v - 14) \div 3) * 4 + 26
            b == (v - 14) * 4 + 66
        IN  <<a, (a + b) \div 2, b>>
     ELSE IF v >= 21 /\ v < 28 THEN
        LET b == ((v - 21) \div 2) * 4 + 50
            d == (v - 21) * 4 + 94
        IN  <<(<<28, 26, 30, 28, 32, 30, 34>>)[v - 20], b, (b + d) \div 2, d>>
     ELSE IF v >= 28 /\ v < 35 THEN
        (<< <<26, 50, 74, 98, 122>>, <<30, 54, 78, 102, 126>>,
            <<26, 52, 78, 104, 130>>, <<30, 56, 82, 108, 134>>,
            <<34, 60, 86, 112, 138>>, <<30, 58, 86, 114, 142>>,
            <<34, 62, 90, 118, 146>> >>)[v - 27]
     ELSE IF v >= 35 /\ v <= 40 THEN
        (<< <<30, 54, 78, 102, 126, 150>>, <<24, 50, 76, 102, 128, 154>>,
            <<28, 54, 80, 106, 132, 158>>, <<32, 58, 84, 110, 136, 162>>,
            <<26, 54, 82, 110, 138, 166>>, <<30, 58, 86, 114, 142, 170>> >>)[v - 34]
     ELSE <<>>)

\* the centre points (s, t) of the alignment patterns, as a set: the
\* patterns never overlap, so the order of painting does not matter
get_alignment_pattern_points(v) ==
    LET coords == create_alignment_pattern_coord_list(v)
        last == Len(coords)
    IN  {<<coords[i], coords[j]>> : <<i, j>> \in
            {p \in (1..last) \X (1..last) :
                ~ \/ (p[1] = 1 /\ p[2] = 1)
                  \/ (p[1] = 1 /\ p[2] = last)
                  \/ (p[1] = last /\ p[2] = 1)}}

\* (x, y) lies in the w x w image overlaid at (left, top)
InOverlay(x, y, left, top, w) ==
    x >= left /\ x < left + w /\ y >= top /\ y < top + w

\* create_standard_qt_canvas paints in this order: encoding region, quiet
\* area, finder patterns, timing patterns, alignment patterns, format
\* markers, version markers; a pixel holds what was painted last.
standard_canvas_pixel(v, x, y) ==
    LET s == 17 + 4 * v + 8
        version_marked ==
            v >= 7 /\ \E i \in 0..5, j \in 0..2 :
                \/ (x = 4 + i /\ y = s - 13 - j)
                \/ (x = s - 13 - j /\ y = 4 + i)
        format_marked ==
            \/ \E i \in 0..5 :
                \/ (x = 12 /\ y = 4 + i)
                \/ (x = 4 + i /\ y = 12)
                \/ (x = s - 5 - i /\ y = 12)
                \/ (x = 12 /\ y = s - 5 - i)
            \/ <<x, y>> \in {<<12, 11>>, <<11, 12>>, <<12, 12>>,
                             <<12, s - 11>>, <<12, s - 12>>,
                             <<s - 11, 12>>, <<s - 12, 12>>}
        points == IF v >= 2 THEN get_alignment_pattern_points(v) ELSE {}
        timing == (x = 10 /\ y >= 10 /\ y < s - 12) \/ (y = 10 /\ x >= 10 /\ x < s - 12)
        quiet == x < 4 \/ y < 4 \/ x > s - 5 \/ y > s - 5
    IN  IF version_marked THEN MARKER_FORMAT_INFORMATION
        ELSE IF format_marked THEN MARKER_FORMAT_INFORMATION
        ELSE IF \E p \in points : InOverlay(x, y, p[1] + 2, p[2] + 2, 5)
        THEN LET p == CHOOSE p \in points : InOverlay(x, y, p[1] + 2, p[2] + 2, 5)
             IN  create_alignment_pattern(x - (p[1] + 2), y - (p[2] + 2))
        ELSE IF timing
        THEN (IF (IF x = 10 THEN y ELSE x) % 2 = 0 THEN BIT_BLACK ELSE BIT_WHITE)
        ELSE IF InOverlay(x, y, s - 12, 3, 9) THEN create_finder_pattern(x - (s - 12), y - 3)
        ELSE IF InOverlay(x, y, 3, s - 12, 9) THEN create_finder_pattern(x - 3, y - (s - 12))
        ELSE IF InOverlay(x, y, 3, 3, 9) THEN create_finder_pattern(x - 3, y - 3)
        ELSE IF quiet THEN BIT_WHITE
        ELSE MARKER_ENCODING_REGION

\* the Standard canvas with the module at (8, 4v + 9) of the interior left
\* to the encoding region
create_standard_qt_canvas_without_dark_module(v) ==
    LET s == 17 + 4 * v + 8
    IN  AsSeq([y1 \in 1..s |-> AsSeq([x1 \in 1..s |->
            IF x1 - 1 = 12 /\ y1 - 1 = s - 12 THEN MARKER_ENCODING_REGION
            ELSE standard_canvas_pixel(v, x1 - 1, y1 - 1)])])

create_standard_qt_canvas(v) ==
    LET s == 17 + 4 * v + 8
    IN  AsSeq([y1 \in 1..s |-> AsSeq([x1 \in 1..s |-> standard_canvas_pixel(v, x1 - 1, y1 - 1)])])

micro_canvas_pixel(k, x, y) ==
    LET s == 9 + 2 * k + 4
        format_marked == (x = 10 /\ y >= 3 /\ y < 11) \/ (y = 10 /\ x >= 3 /\ x < 11)
        timing == (x = 2 /\ y >= 10 /\ y < s - 2) \/ (y = 2 /\ x >= 10 /\ x < s - 2)
        quiet == x < 2 \/ y < 2 \/ x > s - 3 \/ y > s - 3
    IN  IF format_marked THEN MARKER_FORMAT_INFORMATION
        ELSE IF timing
        THEN (IF (IF x = 2 THEN y ELSE x) % 2 = 0 THEN BIT_BLACK ELSE BIT_WHITE)
        ELSE IF InOverlay(x, y, 1, 1, 9) THEN create_finder_pattern(x - 1, y - 1)
        ELSE IF quiet THEN BIT_WHITE
        ELSE MARKER_ENCODING_REGION

\* a faulty variant, kept to show what the property rules out: the interior alone, without the quiet zone
create_micro_qr_canvas_interior(k) ==
    LET s == 9 + 2 * k
    IN  AsSeq([y1 \in 1..s |-> AsSeq([x1 \in 1..s |-> micro_canvas_pixel(k, x1 + 1, y1 + 1)])])

create_micro_qr_canvas(k) ==
    LET s == 9 + 2 * k + 4
    IN  AsSeq([y1 \in 1..s |-> AsSeq([x1 \in 1..s |-> micro_canvas_pixel(k, x1 - 1, y1 - 1)])])

\* <<>> stands for the panic of the size assertions
create_qr_canvas(sz) ==
    IF sz.kind = "Micro"
    THEN (IF sz.v >= 1 /\ sz.v <= 4 THEN create_micro_qr_canvas(sz.v) ELSE <<>>)
    ELSE (IF sz.v >= 1 /\ sz.v <= 40 THEN create_standard_qt_canvas(sz.v) ELSE <<>>)

---------------------------------------------------------------------------
(* serialization.rs: insert_data_payload.                                   *)

\* the local variables of insert_data_payload; ok = FALSE after a panic,
\* found = TRUE when the search loop has been left
Walker(canvas, x_cur, y_cur, x_step, y_step) ==
    [canvas |-> canvas, x_cur |-> x_cur, y_cur |-> y_cur,
     x_step |-> x_step, y_step |-> y_step, ok |-> TRUE, found |-> FALSE]

\* the step to the next candidate, the same in all three loops
walker_advance(ws) ==
    LET x1 == ws.x_cur + ws.x_step
        y1 == IF ws.x_step = -1 THEN ws.y_cur ELSE ws.y_cur + ws.y_step
        h == Height(ws.canvas)
    IN  IF y1 < 0
        THEN [ws EXCEPT !.x_cur = x1 - 2, !.y_cur = 0, !.y_step = 1,
                        !.x_step = -ws.x_step]
        ELSE IF y1 >= h
        THEN [ws EXCEPT !.x_cur = x1 - 2, !.y_cur = h - 1, !.y_step = -1,
                        !.x_step = -ws.x_step]
        ELSE [ws EXCEPT !.x_cur = x1, !.y_cur = y1, !.x_step = -ws.x_step]

\* one pass of the loop "find next valid place for next bit"; in the data
\* loop a negative x_cur panics, in the ECC loop it leaves the loop
search_step(ws, is_data) ==
    LET a == walker_advance(ws)
    IN  IF a.x_cur < 0
        THEN (IF is_data THEN [a EXCEPT !.ok = FALSE, !.found = TRUE]
              ELSE [a EXCEPT !.found = TRUE])
        ELSE IF Px(a.canvas, a.x_cur, a.y_cur) = MARKER_ENCODING_REGION
        THEN [a EXCEPT !.found = TRUE]
        ELSE a

\* at most n passes of the search loop
RECURSIVE search_loop(_, _, _)
search_loop(ws, is_data, n) ==
    IF ws.found \/ n = 0 THEN ws
    ELSE IF n = 1 THEN search_step(ws, is_data)
    ELSE LET half == search_loop(ws, is_data, n \div 2)
         IN  search_loop(half, is_data, n - (n \div 2))

\* no loop of the walker makes more passes than this
MaxPasses(canvas) == 2 * Height(canvas) * (Width(canvas) + 2)

\* one pass of "for _i in 0..bits_to_read": place the bit, find the next
\* place; x_cur as u32 of a negative x_cur is out of the image and panics
place_bit(ws, bit, is_data) ==
    IF ~ws.ok THEN ws
    ELSE IF ws.x_cur < 0 THEN [ws EXCEPT !.ok = FALSE]
    ELSE LET placed == [ws EXCEPT
                 !.canvas = SetPx(@, ws.x_cur, ws.y_cur,
                                  IF bit = 1 THEN BIT_BLACK ELSE BIT_WHITE),
                 !.found = FALSE]
         IN  search_loop(placed, is_data, MaxPasses(ws.canvas))

\* the passes from..to of the loop over the bits
RECURSIVE place_bits(_, _, _, _, _)
place_bits(ws, bits, from, to, is_data) ==
    IF from > to \/ ~ws.ok THEN ws
    ELSE IF from = to THEN place_bit(ws, bits[from], is_data)
    ELSE LET mid == (from + to) \div 2
             half == place_bits(ws, bits, from, mid, is_data)
         IN  place_bits(half, bits, mid + 1, to, is_data)

\* one pass of the padding loop
pad_step(ws) ==
    LET whitened ==
            IF Px(ws.canvas, ws.x_cur, ws.y_cur) = MARKER_ENCODING_REGION
            THEN [ws EXCEPT !.canvas = SetPx(@, ws.x_cur, ws.y_cur, BIT_WHITE)]
            ELSE ws
        a == walker_advance(whitened)
    IN  IF a.x_cur < 0 THEN [a EXCEPT !.found = TRUE] ELSE a

RECURSIVE pad_loop(_, _)
pad_loop(ws, n) ==
    IF ws.found \/ n = 0 THEN ws
    ELSE IF n = 1 THEN pad_step(ws)
    ELSE LET half == pad_loop(ws, n \div 2)
         IN  pad_loop(half, n - (n \div 2))

\* a faulty variant, kept to show what the property rules out: returns after the ECC bits, without the padding loop
insert_data_payload_no_padding(canvas, sz, data_bytes, ecc_bytes) ==
    LET start == IF sz.kind = "Micro" THEN 2 + 8 + 2 * sz.v ELSE 4 + 16 + 4 * sz.v
        ws0 == Walker(canvas, start, start, -1, -1)
        half_word == sz \in {Micro(1), Micro(3)}
        bits_to_read == IF half_word THEN Len(data_bytes) * 8 - 4
                        ELSE Len(data_bytes) * 8
    IN  IF bits_to_read < 0 THEN [ws0 EXCEPT !.ok = FALSE]
        ELSE place_bits(place_bits(ws0, BytesBits(data_bytes), 1, bits_to_read, TRUE),
                        BytesBits(ecc_bytes), 1, 8 * Len(ecc_bytes), FALSE)

\* insert_data_payload on canvas; the result holds the canvas and ok
insert_data_payload(canvas, sz, data_bytes, ecc_bytes) ==
    LET start == IF sz.kind = "Micro" THEN 2 + 8 + 2 * sz.v ELSE 4 + 16 + 4 * sz.v
        ws0 == Walker(canvas, start, start, -1, -1)
        half_word == sz \in {Micro(1), Micro(3)}
        \* data_words.len() * 8 - 4 of no words: the subtraction panics
        \* with overflow checks and wraps without, where the first
        \* read_bit().unwrap() panics
        bits_to_read == IF half_word THEN Len(data_bytes) * 8 - 4
                        ELSE Len(data_bytes) * 8
        data_bits == BytesBits(data_bytes)
        ecc_bits == BytesBits(ecc_bytes)
    IN  IF bits_to_read < 0 THEN [ws0 EXCEPT !.ok = FALSE]
        ELSE LET d == place_bits(ws0, data_bits, 1, bits_to_read, TRUE)
                 e == place_bits(d, ecc_bits, 1, Len(ecc_bits), FALSE)
             IN  IF ~e.ok THEN e
                 ELSE IF e.x_cur > 0
                 THEN pad_loop([e EXCEPT !.found = FALSE], MaxPasses(canvas))
                 ELSE e

---------------------------------------------------------------------------
(* serialization/masking.rs                                                 *)

\* / and % of i32: the quotient is rounded towards zero
rust_div(a, b) == IF a >= 0 THEN a \div b ELSE -((-a) \div b)
rust_rem(a, b) == a - b * rust_div(a, b)

\* the masking condition of pattern_index at row i, column j (quiet
\* region included in both)
get_masking_function(pattern_index, sz, i, j) ==
    IF sz.kind = "Micro"
    THEN LET a == i - 2
             b == j - 2
         IN  CASE pattern_index = 0 -> rust_rem(a, 2) = 0
               [] pattern_index = 1 -> rust_rem(rust_div(a, 2) + rust_div(b, 3), 2) = 0
               [] pattern_index = 2 -> rust_rem(rust_rem(a * b, 2) + rust_rem(a * b, 3), 2) = 0
               [] pattern_index = 3 -> rust_rem(rust_rem(a + b, 2) + rust_rem(a * b, 3), 2) = 0
    ELSE LET a == i - 4
             b == j - 4
         IN  CASE pattern_index = 0 -> rust_rem(a + b, 2) = 0
               [] pattern_index = 1 -> rust_rem(a, 2) = 0
               [] pattern_index = 2 -> rust_rem(b, 3) = 0
               [] pattern_index = 3 -> rust_rem(a + b, 3) = 0
               [] pattern_index = 4 -> rust_rem(rust_div(a, 2) + rust_div(b, 3), 2) = 0
               [] pattern_index = 5 -> rust_rem(a * b, 2) + rust_rem(a * b, 3) = 0
               [] pattern_index = 6 -> rust_rem(rust_rem(a * b, 2) + rust_rem(a * b, 3), 2) = 0
               [] pattern_index = 7 -> rust_rem(rust_rem(a + b, 2) + rust_rem(a * b, 3), 2) = 0

\* a faulty variant, kept to show what the property rules out: flips every cell where the masking condition holds
apply_mask_all_cells(symbol, pattern, sz, marker) ==
    AsSeq([y1 \in 1..Height(symbol) |-> AsSeq([x1 \in 1..Width(symbol) |->
        IF get_masking_function(pattern, sz, y1 - 1, x1 - 1)
        THEN (IF symbol[y1][x1] = BIT_BLACK THEN BIT_WHITE ELSE BIT_BLACK)
        ELSE symbol[y1][x1]])])

\* apply_mask: symbol with the pixels of the marker's encoding region
\* flipped where the masking condition holds
apply_mask(symbol, pattern, sz, marker) ==
    AsSeq([y1 \in 1..Height(symbol) |-> AsSeq([x1 \in 1..Width(symbol) |->
        IF marker[y1][x1] = MARKER_ENCODING_REGION
              /\ get_masking_function(pattern, sz, y1 - 1, x1 - 1)
        THEN (IF symbol[y1][x1] = BIT_BLACK THEN BIT_WHITE ELSE BIT_BLACK)
        ELSE symbol[y1][x1]])])

PENALTY_N1 == 3
PENALTY_N2 == 3
PENALTY_N3 == 40
PENALTY_N4 == 10

\* the locals of one row or column of the first feature
RunState(last_color, current_run, score) ==
    [last_color |-> last_color, current_run |-> current_run, score |-> score]

\* the body of the inner loop of the first feature, for the pixel px
run_step(rs, px) ==
    IF px = rs.last_color
    THEN [rs EXCEPT !.current_run = @ + 1]
    ELSE RunState(px, 1,
                  IF rs.current_run >= 5
                  THEN rs.score + (rs.current_run - 5) + PENALTY_N1
                  ELSE rs.score)

\* the inner loop over the pixels line[from..to]
RECURSIVE run_loop(_, _, _, _)
run_loop(rs, line, from, to) ==
    \* current_run is never below 1: the test has rs computed before the
    \* loop goes on
    IF from > to \/ rs.current_run < 1 THEN rs
    ELSE IF from = to THEN run_step(rs, line[from])
    ELSE LET mid == (from + to) \div 2
             half == run_loop(rs, line, from, mid)
         IN  run_loop(half, line, mid + 1, to)

\* the penalty of one row or column: the loop and the final check
line_penalty(line) ==
    LET rs == run_loop(RunState(BIT_WHITE, 1, 0), line, 1, Len(line))
    IN  IF rs.current_run >= 5
        THEN rs.score + (rs.current_run - 5) + PENALTY_N1
        ELSE rs.score

RECURSIVE SeqSum(_, _, _)
SeqSum(seq, from, to) ==
    IF from > to THEN 0
    ELSE IF from = to THEN seq[from]
    ELSE LET mid == (from + to) \div 2
         IN  SeqSum(seq, from, mid) + SeqSum(seq, mid + 1, to)

\* FIRST feature: rows, then columns, of the symbol without its quiet region
penalty_feature1(img) ==
    LET w == Width(img)
        h == Height(img)
        rows == AsSeq([k \in 1..(h - 8) |-> line_penalty(AsSeq([n \in 1..(w - 8) |-> Px(img, n + 3, k + 3)]))])
        cols == AsSeq([k \in 1..(w - 8) |-> line_penalty(AsSeq([n \in 1..(h - 8) |-> Px(img, k + 3, n + 3)]))])
    IN  SeqSum(rows, 1, Len(rows)) + SeqSum(cols, 1, Len(cols))

\* SECOND feature: 2 x 2 blocks of one colour
penalty_feature2(img) ==
    PENALTY_N2 * Cardinality(
        {p \in (4..(Width(img) - 6)) \X (4..(Height(img) - 6)) :
            /\ Px(img, p[1], p[2]) = Px(img, p[1] + 1, p[2])
            /\ Px(img, p[1], p[2]) = Px(img, p[1], p[2] + 1)
            /\ Px(img, p[1], p[2]) = Px(img, p[1] + 1, p[2] + 1)})

PATTERN == <<BIT_BLACK, BIT_WHITE, BIT_BLACK, BIT_BLACK, BIT_BLACK, BIT_WHITE, BIT_BLACK>>

\* the third feature in the rows with four light modules asked for on
\* both sides of the pattern
feature3_rows_both_sides(img) ==
    LET is_black(x_cur, y) == 0 <= x_cur /\ x_cur < Width(img) /\ Px(img, x_cur, y) = BIT_BLACK
    IN  {p \in (4..(Width(img) - 11)) \X (4..(Height(img) - 5)) :
            /\ \A k \in 0..6 : Px(img, p[1] + k, p[2]) = PATTERN[k + 1]
            /\ ~ \E x_cur \in (p[1] - 4)..(p[1] - 1) : is_black(x_cur, p[2])
            /\ ~ \E x_cur \in (p[1] + 7)..(p[1] + 10) : is_black(x_cur, p[2])}

\* THIRD feature in the rows: the places (x, y) that are penalised
feature3_rows(img) ==
    LET is_black(x_cur, y) == 0 <= x_cur /\ x_cur < Width(img) /\ Px(img, x_cur, y) = BIT_BLACK
    IN  {p \in (4..(Width(img) - 11)) \X (4..(Height(img) - 5)) :
            /\ \A k \in 0..6 : Px(img, p[1] + k, p[2]) = PATTERN[k + 1]
            /\ \/ ~ \E x_cur \in (p[1] - 4)..(p[1] - 1) : is_black(x_cur, p[2])
               \/ ~ \E x_cur \in (p[1] + 7)..(p[1] + 10) : is_black(x_cur, p[2])}

\* THIRD feature in the columns: the places (x, y) that are penalised
feature3_cols(img) ==
    LET is_black(x, y_cur) == 0 <= y_cur /\ y_cur < Width(img) /\ Px(img, x, y_cur) = BIT_BLACK
    IN  {p \in (4..(Width(img) - 5)) \X (4..(Height(img) - 11)) :
            /\ \A k \in 0..6 : Px(img, p[1], p[2] + k) = PATTERN[k + 1]
            /\ \/ ~ \E y_cur \in (p[2] - 4)..(p[2] - 1) : is_black(p[1], y_cur)
               \/ ~ \E y_cur \in (p[2] + 7)..(p[2] + 10) : is_black(p[1], y_cur)}

\* FOURTH feature: floor(|0.5 - dark / modules| * 20.0) in f64.  The
\* quotient is rounded to the nearest f64 before the subtraction, and at
\* the ratios 9/20, 2/5, 3/5 and 7/10 the product comes out just below the
\* whole number the exact value is; at every other ratio the f64 result is
\* the floor of the exact value.
feature4_step(num_dark_modules, modules) ==
    LET exact == (Abs(modules - 2 * num_dark_modules) * 10) \div modules
        below == \/ 20 * num_dark_modules = 9 * modules
                 \/ 5 * num_dark_modules = 2 * modules
                 \/ 5 * num_dark_modules = 3 * modules
                 \/ 10 * num_dark_modules = 7 * modules
    IN  IF below THEN exact - 1 ELSE exact

num_dark_modules(img) ==
    SeqSum(AsSeq([y1 \in 1..Height(img) |->
                Cardinality({x1 \in 1..Width(img) : img[y1][x1] = BIT_BLACK})]),
           1, Height(img))

\* a u32 score: ok = FALSE when a subtraction overflowed with overflow
\* checks; without them the value wraps, and a wrapped value (wrapped =
\* 1, v below zero standing for 2^32 + v) is larger than every other one
Score(ok, v) == [ok |-> ok, wrapped |-> IF v < 0 THEN 1 ELSE 0, v |-> v]

\* the score as compute_mask_penalty_score_standard accumulates it: n1
\* after the first feature, s2 and s4 at the two subtractions of 9 * N3,
\* s6 at the end, all as integers
standard_penalty_sums(masked_symbol) ==
    LET n1 == penalty_feature1(masked_symbol)
        s1 == n1 + penalty_feature2(masked_symbol)
        s2 == s1 + PENALTY_N3 * Cardinality(feature3_rows(masked_symbol))
        s3 == s2 - 9 * PENALTY_N3
        s4 == s3 + PENALTY_N3 * Cardinality(feature3_cols(masked_symbol))
        s5 == s4 - 9 * PENALTY_N3
        modules == (Width(masked_symbol) - 8) * (Height(masked_symbol) - 8)
        s6 == s5 + PENALTY_N4 * feature4_step(num_dark_modules(masked_symbol), modules)
    IN  [n1 |-> n1, s2 |-> s2, s4 |-> s4, s6 |-> s6]

\* the u32 result: "score -= 9 * PENALTY_N3" panics with overflow checks
\* when the score is below 9 * N3
score_of_sums(sums, checks) ==
    IF checks /\ (sums.s2 < 9 * PENALTY_N3 \/ sums.s4 < 9 * PENALTY_N3)
    THEN Score(FALSE, 0)
    ELSE Score(TRUE, sums.s6)

compute_mask_penalty_score_standard(masked_symbol, checks) ==
    score_of_sums(standard_penalty_sums(masked_symbol), checks)

compute_mask_score_micro(masked_symbol) ==
    LET w == Width(masked_symbol)
        h == Height(masked_symbol)
        sum1 == Cardinality({y_cur \in 3..(h - 3) : Px(masked_symbol, w - 2, y_cur) = BIT_BLACK})
        sum2 == Cardinality({x_cur \in 3..(w - 3) : Px(masked_symbol, x_cur, h - 2) = BIT_BLACK})
    IN  IF sum1 <= sum2 THEN Score(TRUE, sum1 * 16 + sum2)
        ELSE Score(TRUE, sum2 * 16 + sum1)

\* the order of u32 scores
ScoreLess(a, b) == a.wrapped < b.wrapped \/ (a.wrapped = b.wrapped /\ a.v < b.v)

\* apply_best_mask: [ok, index, symbol, scores]; Iterator::max_by_key
\* returns the last of several maxima, Iterator::min_by_key the first of
\* several minima
apply_best_mask(unmasked_symbol, sz, checks) ==
    LET canvas == create_qr_canvas(sz)
        n == IF sz.kind = "Micro" THEN 4 ELSE 8
        masked == AsSeq([k \in 1..n |-> apply_mask(unmasked_symbol, k - 1, sz, canvas)])
        scores == AsSeq([k \in 1..n |->
                     IF sz.kind = "Micro" THEN compute_mask_score_micro(masked[k])
                     ELSE compute_mask_penalty_score_standard(masked[k], checks)])
        best == IF sz.kind = "Micro"
                THEN CHOOSE k \in 1..n :
                        /\ \A m \in 1..n : ~ScoreLess(scores[k], scores[m])
                        /\ \A m \in (k + 1)..n : ScoreLess(scores[m], scores[k])
                ELSE CHOOSE k \in 1..n :
                        /\ \A m \in 1..n : ~ScoreLess(scores[m], scores[k])
                        /\ \A m \in 1..(k - 1) : ScoreLess(scores[k], scores[m])
    IN  IF \E k \in 1..n : ~scores[k].ok
        THEN [ok |-> FALSE, index |-> 0, symbol |-> unmasked_symbol, scores |-> scores]
        ELSE [ok |-> TRUE, index |-> best - 1, symbol |-> masked[best], scores |-> scores]

---------------------------------------------------------------------------
(* serialization.rs: format and version information.                        *)

FORMAT_INFOS_QR ==
    <<21522, 20773, 24188, 23371, 17913, 16590, 20375, 19104,
      30660, 29427, 32170, 30877, 26159, 25368, 27713, 26998,
      5769, 5054, 7399, 6608, 1890, 597, 3340, 2107,
      13663, 12392, 16177, 14854, 9396, 8579, 11994, 11245>>

FORMAT_INFOS_MICRO_QR ==
    <<17477, 16754, 20011, 19228, 21934, 20633, 24512, 23287,
      26515, 25252, 28157, 26826, 30328, 29519, 31766, 31009,
      1758, 1001, 3248, 2439, 5941, 4610, 7515, 6252,
      9480, 8255, 12134, 10833, 13539, 12756, 16013, 15290>>

VERSION_INFOS ==
    <<31892, 34236, 39577, 42195, 48118, 51042, 55367, 58893,
      63784, 68472, 70749, 76311, 79154, 84390, 87683, 92361,
      96236, 102084, 102881, 110507, 110734, 117786, 119615, 126325,
      127568, 133589, 136944, 141498, 145311, 150283, 152622, 158308,
      161089, 167017>>

VERSION_INFO_COORDS_BL ==
    <<<<5, -9>>, <<5, -10>>, <<5, -11>>, <<4, -9>>, <<4, -10>>, <<4, -11>>,
      <<3, -9>>, <<3, -10>>, <<3, -11>>, <<2, -9>>, <<2, -10>>, <<2, -11>>,
      <<1, -9>>, <<1, -10>>, <<1, -11>>, <<0, -9>>, <<0, -10>>, <<0, -11>>>>

VERSION_INFO_COORDS_TR ==
    <<<<-9, 5>>, <<-10, 5>>, <<-11, 5>>, <<-9, 4>>, <<-10, 4>>, <<-11, 4>>,
      <<-9, 3>>, <<-10, 3>>, <<-11, 3>>, <<-9, 2>>, <<-10, 2>>, <<-11, 2>>,
      <<-9, 1>>, <<-10, 1>>, <<-11, 1>>, <<-9, 0>>, <<-10, 0>>, <<-11, 0>>>>

FORMAT_INFO_COORDS_QR_MAIN ==
    <<<<0, 8>>, <<1, 8>>, <<2, 8>>, <<3, 8>>, <<4, 8>>, <<5, 8>>, <<7, 8>>, <<8, 8>>,
      <<8, 7>>, <<8, 5>>, <<8, 4>>, <<8, 3>>, <<8, 2>>, <<8, 1>>, <<8, 0>>>>

FORMAT_INFO_COORDS_QR_SIDE ==
    <<<<8, -1>>, <<8, -2>>, <<8, -3>>, <<8, -4>>, <<8, -5>>, <<8, -6>>, <<8, -7>>, <<-8, 8>>,
      <<-7, 8>>, <<-6, 8>>, <<-5, 8>>, <<-4, 8>>, <<-3, 8>>, <<-2, 8>>, <<-1, 8>>>>

FORMAT_INFO_COORDS_MICRO_QR ==
    <<<<1, 8>>, <<2, 8>>, <<3, 8>>, <<4, 8>>, <<5, 8>>, <<6, 8>>, <<7, 8>>, <<8, 8>>,
      <<8, 7>>, <<8, 6>>, <<8, 5>>, <<8, 4>>, <<8, 3>>, <<8, 2>>, <<8, 1>>>>

\* bit k (1 = first written, the most significant of num_bits) of bits
WordBit(bits, num_bits, k) == (bits \div Pow2(num_bits - k)) % 2

\* the pixel the k-th coordinate pair names
coord_pixel(coords, k, sz) ==
    LET symbol_size == IF sz.kind = "Micro" THEN 9 + 2 * sz.v ELSE 17 + 4 * sz.v
        quiet_offset == IF sz.kind = "Micro" THEN 2 ELSE 4
        xoff == coords[k][1]
        yoff == coords[k][2]
    IN  <<quiet_offset + (IF xoff < 0 THEN xoff + symbol_size ELSE xoff),
          quiet_offset + (IF yoff < 0 THEN yoff + symbol_size ELSE yoff)>>

\* insert_bits_at: a pixel named by several pairs holds the bit of the
\* last of them
insert_bits_at(symbol, bits, num_bits, coords, sz) ==
    AsSeq([y1 \in 1..Height(symbol) |-> AsSeq([x1 \in 1..Width(symbol) |->
        LET hits == {k \in 1..Len(coords) : coord_pixel(coords, k, sz) = <<x1 - 1, y1 - 1>>}
        IN  IF hits = {} THEN symbol[y1][x1]
            ELSE LET k == CHOOSE k \in hits : \A m \in hits : m <= k
                 IN  IF WordBit(bits, num_bits, k) = 0 THEN BIT_WHITE ELSE BIT_BLACK])])

\* -1 stands for the panic "Invalid combination of size and ECC level"
compute_format_info_bits(sz, ecl, mask_pattern) ==
    IF sz.kind = "Micro"
    THEN LET data_bits ==
                 CASE sz.v = 1 /\ ecl = "L" -> 0
                   [] sz.v = 2 /\ ecl = "L" -> 4
                   [] sz.v = 2 /\ ecl = "M" -> 8
                   [] sz.v = 3 /\ ecl = "L" -> 12
                   [] sz.v = 3 /\ ecl = "M" -> 16
                   [] sz.v = 4 /\ ecl = "L" -> 20
                   [] sz.v = 4 /\ ecl = "M" -> 24
                   [] sz.v = 4 /\ ecl = "Q" -> 28
                   [] OTHER -> -1
         IN  IF data_bits = -1 THEN -1
             ELSE FORMAT_INFOS_MICRO_QR[data_bits + mask_pattern + 1]
    ELSE LET data_bits ==
                 CASE ecl = "L" -> 8
                   [] ecl = "M" -> 0
                   [] ecl = "Q" -> 24
                   [] ecl = "H" -> 16
         IN  FORMAT_INFOS_QR[data_bits + mask_pattern + 1]

\* a faulty variant, kept to show what the property rules out: leaves out the dark module
insert_format_info_no_dark_module(symbol, sz, ecl, mask_pattern) ==
    LET format_bits == compute_format_info_bits(sz, ecl, mask_pattern)
    IN  IF format_bits = -1 THEN <<>>
        ELSE IF sz.kind = "Micro"
        THEN insert_bits_at(symbol, format_bits, 15, FORMAT_INFO_COORDS_MICRO_QR, sz)
        ELSE insert_bits_at(
                 insert_bits_at(symbol, format_bits, 15, FORMAT_INFO_COORDS_QR_MAIN, sz),
                 format_bits, 15, FORMAT_INFO_COORDS_QR_SIDE, sz)

\* a faulty variant, kept to show what the property rules out: writes the position at the top-left finder only
insert_format_info_main_only(symbol, sz, ecl, mask_pattern) ==
    LET format_bits == compute_format_info_bits(sz, ecl, mask_pattern)
    IN  IF format_bits = -1 THEN <<>>
        ELSE IF sz.kind = "Micro"
        THEN insert_bits_at(symbol, format_bits, 15, FORMAT_INFO_COORDS_MICRO_QR, sz)
        ELSE SetPx(insert_bits_at(symbol, format_bits, 15, FORMAT_INFO_COORDS_QR_MAIN, sz),
                   12, 13 + 4 * sz.v, BIT_BLACK)

\* insert_format_info; <<>> stands for a panic
insert_format_info(symbol, sz, ecl, mask_pattern) ==
    LET format_bits == compute_format_info_bits(sz, ecl, mask_pattern)
    IN  IF format_bits = -1 THEN <<>>
        ELSE IF sz.kind = "Micro"
        THEN insert_bits_at(symbol, format_bits, 15, FORMAT_INFO_COORDS_MICRO_QR, sz)
        ELSE LET main == insert_bits_at(symbol, format_bits, 15, FORMAT_INFO_COORDS_QR_MAIN, sz)
                 side == insert_bits_at(main, format_bits, 15, FORMAT_INFO_COORDS_QR_SIDE, sz)
             IN  SetPx(side, 12, 13 + 4 * sz.v, BIT_BLACK)

\* a faulty variant, kept to show what the property rules out: writes the bottom-left block only
insert_version_info_bl_only(symbol, sz) ==
    IF sz.kind = "Standard" /\ sz.v >= 7
    THEN insert_bits_at(symbol, VERSION_INFOS[sz.v - 7 + 1], 18, VERSION_INFO_COORDS_BL, sz)
    ELSE symbol

insert_version_info(symbol, sz) ==
    IF sz.kind = "Standard" /\ sz.v >= 7
    THEN LET version_bits == VERSION_INFOS[sz.v - 7 + 1]
             bl == insert_bits_at(symbol, version_bits, 18, VERSION_INFO_COORDS_BL, sz)
         IN  insert_bits_at(bl, version_bits, 18, VERSION_INFO_COORDS_TR, sz)
    ELSE symbol

---------------------------------------------------------------------------
(* reedsolomon.rs is not among the sources: construct_codewords follows     *)
(* the specification's section on the Reed-Solomon pipeline.                *)

\* GF(256) with the primitive polynomial 0x11D and the generator 2:
\* GF_EXP[i + 1] is 2^i, for i in 0..254
GF_EXP ==
    <<1, 2, 4, 8, 16, 32, 64, 128, 29, 58, 116, 232, 205, 135, 19, 38,
      76, 152, 45, 90, 180, 117, 234, 201, 143, 3, 6, 12, 24, 48, 96, 192,
      157, 39, 78, 156, 37, 74, 148, 53, 106, 212, 181, 119, 238, 193, 159, 35,
      70, 140, 5, 10, 20, 40, 80, 160, 93, 186, 105, 210, 185, 111, 222, 161,
      95, 190, 97, 194, 153, 47, 94, 188, 101, 202, 137, 15, 30, 60, 120, 240,
      253, 231, 211, 187, 107, 214, 177, 127, 254, 225, 223, 163, 91, 182, 113, 226,
      217, 175, 67, 134, 17, 34, 68, 136, 13, 26, 52, 104, 208, 189, 103, 206,
      129, 31, 62, 124, 248, 237, 199, 147, 59, 118, 236, 197, 151, 51, 102, 204,
      133, 23, 46, 92, 184, 109, 218, 169, 79, 158, 33, 66, 132, 21, 42, 84,
      168, 77, 154, 41, 82, 164, 85, 170, 73, 146, 57, 114, 228, 213, 183, 115,
      230, 209, 191, 99, 198, 145, 63, 126, 252, 229, 215, 179, 123, 246, 241, 255,
      227, 219, 171, 75, 150, 49, 98, 196, 149, 55, 110, 220, 165, 87, 174, 65,
      130, 25, 50, 100, 200, 141, 7, 14, 28, 56, 112, 224, 221, 167, 83, 166,
      81, 162, 89, 178, 121, 242, 249, 239, 195, 155, 43, 86, 172, 69, 138, 9,
      18, 36, 72, 144, 61, 122, 244, 245, 247, 243, 251, 235, 203, 139, 11, 22,
      44, 88, 176, 125, 250, 233, 207, 131, 27, 54, 108, 216, 173, 71, 142>>

\* GF_LOG[a] is the i in 0..254 with 2^i = a, for a in 1..255
GF_LOG ==
    <<0, 1, 25, 2, 50, 26, 198, 3, 223, 51, 238, 27, 104, 199, 75, 4,
      100, 224, 14, 52, 141, 239, 129, 28, 193, 105, 248, 200, 8, 76, 113, 5,
      138, 101, 47, 225, 36, 15, 33, 53, 147, 142, 218, 240, 18, 130, 69, 29,
      181, 194, 125, 106, 39, 249, 185, 201, 154, 9, 120, 77, 228, 114, 166, 6,
      191, 139, 98, 102, 221, 48, 253, 226, 152, 37, 179, 16, 145, 34, 136, 54,
      208, 148, 206, 143, 150, 219, 189, 241, 210, 19, 92, 131, 56, 70, 64, 30,
      66, 182, 163, 195, 72, 126, 110, 107, 58, 40, 84, 250, 133, 186, 61, 202,
      94, 155, 159, 10, 21, 121, 43, 78, 212, 229, 172, 115, 243, 167, 87, 7,
      112, 192, 247, 140, 128, 99, 13, 103, 74, 222, 237, 49, 197, 254, 24, 227,
      165, 153, 119, 38, 184, 180, 124, 17, 68, 146, 217, 35, 32, 137, 46, 55,
      63, 209, 91, 149, 188, 207, 205, 144, 135, 151, 178, 220, 252, 190, 97, 242,
      86, 211, 171, 20, 42, 93, 158, 132, 60, 57, 83, 71, 109, 65, 162, 31,
      45, 67, 216, 183, 123, 164, 118, 196, 23, 73, 236, 127, 12, 111, 246, 108,
      161, 59, 82, 41, 157, 85, 170, 251, 96, 134, 177, 187, 204, 62, 90, 203,
      89, 95, 176, 156, 169, 160, 81, 11, 245, 22, 235, 122, 117, 44, 215, 79,
      174, 213, 233, 230, 231, 173, 232, 116, 214, 244, 234, 168, 80, 88, 175>>

gf_mul(a, b) ==
    IF a = 0 \/ b = 0 THEN 0 ELSE GF_EXP[((GF_LOG[a] + GF_LOG[b]) % 255) + 1]

\* addition in GF(256): the bitwise exclusive or of two bytes
gf_add(a, b) ==
    LET bit(k) == (((a \div Pow2(k)) % 2) + ((b \div Pow2(k)) % 2)) % 2
    IN  bit(0) + 2 * bit(1) + 4 * bit(2) + 8 * bit(3)
          + 16 * bit(4) + 32 * bit(5) + 64 * bit(6) + 128 * bit(7)

\* g holds the coefficients below the leading one, highest first, of the
\* product of (x - 2^i) for i in 0..Len(g)-1; the result is its product
\* with (x - 2^Len(g))
rs_generator_step(g) ==
    LET n == Len(g) + 1
        root == GF_EXP[n]
        c(k) == IF k = 0 THEN 1 ELSE g[k]
    IN  AsSeq([k \in 1..n |->
            IF k = n THEN gf_mul(c(n - 1), root)
            ELSE gf_add(c(k), gf_mul(c(k - 1), root))])

RECURSIVE rs_generator_from(_, _)
rs_generator_from(g, e) ==
    IF Len(g) >= e THEN g ELSE rs_generator_from(rs_generator_step(g), e)

\* the generator polynomial of e ECC codewords
rs_generator(e) == rs_generator_from(<<>>, e)

\* one step of the division: the remainder after one more data byte
rs_step(rem, gen, byte) ==
    LET e == Len(gen)
        factor == gf_add(byte, rem[1])
    IN  AsSeq([k \in 1..e |->
            gf_add(IF k < e THEN rem[k + 1] ELSE 0, gf_mul(gen[k], factor))])

RECURSIVE rs_divide(_, _, _, _, _)
rs_divide(rem, gen, data, from, to) ==
    IF from > to \/ rem = <<>> THEN rem
    ELSE IF from = to THEN rs_step(rem, gen, data[from])
    ELSE LET mid == (from + to) \div 2
             half == rs_divide(rem, gen, data, from, mid)
         IN  rs_divide(half, gen, data, mid + 1, to)

\* the e ECC codewords of one block of data codewords
rs_block_ecc(data, e) ==
    IF e = 0 THEN <<>>
    ELSE rs_divide(AsSeq([k \in 1..e |-> 0]), rs_generator(e), data, 1, Len(data))

\* construct_codewords: [ok, data, ecc], the data codewords interleaved
\* by column across the blocks and the ECC codewords likewise
construct_codewords(data_content, sz, ecl) ==
    LET cap == lookup_capacity(sz, ecl)
        n1 == cap.block_def1.num_blocks
        n2 == cap.block_def2.num_blocks
        d1 == cap.block_def1.data_codewords
        d2 == cap.block_def2.data_codewords
        e == ecc_words_per_block(cap)
        nblocks == n1 + n2
        start(b) == IF b <= n1 THEN (b - 1) * d1 ELSE n1 * d1 + (b - n1 - 1) * d2
        dlen(b) == IF b <= n1 THEN d1 ELSE d2
        blocks == AsSeq([b \in 1..nblocks |-> SubSeq(data_content, start(b) + 1, start(b) + dlen(b))])
        eccs == AsSeq([b \in 1..nblocks |-> rs_block_ecc(blocks[b], e)])
        \* the r-th data codeword emitted: the columns that every block
        \* has, block after block, then the last column of the second
        \* group's blocks, which are one codeword longer
        at(r) == IF r <= d1 * nblocks
                 THEN <<((r - 1) \div nblocks) + 1, ((r - 1) % nblocks) + 1>>
                 ELSE <<d1 + 1 + ((r - d1 * nblocks - 1) \div n2),
                        n1 + ((r - d1 * nblocks - 1) % n2) + 1>>
    IN  IF Len(data_content) # n1 * d1 + n2 * d2
        THEN [ok |-> FALSE, data |-> <<>>, ecc |-> <<>>]
        ELSE [ok |-> TRUE,
              data |-> AsSeq([r \in 1..Len(data_content) |-> blocks[at(r)[2]][at(r)[1]]]),
              ecc |-> AsSeq([r \in 1..(e * nblocks) |->
                         eccs[((r - 1) % nblocks) + 1][((r - 1) \div nblocks) + 1]])]

---------------------------------------------------------------------------
(* lib.rs: create_qr_code.                                                  *)

\* what the last call on a symbol left: image is the returned or changed
\* image, placed the canvas after insert_data_payload, index the mask
SymState(phase, ok, fail, image, placed, index, level) ==
    [phase |-> phase, ok |-> ok, fail |-> fail, image |-> image,
     placed |-> placed, index |-> index, level |-> level]

\* create_qr_code from the point where the format information is in
code_formatted(placed, best, with_format, sz, level) ==
    IF with_format = <<>>
    THEN SymState("code", FALSE, "insert_format_info", <<>>, <<>>, 0, level)
    ELSE SymState("code", TRUE, "none", insert_version_info(with_format, sz),
                  placed.canvas, best.index, level)

\* ... from the point where the best mask is applied
code_masked(placed, best, sz, level) ==
    IF ~best.ok
    THEN SymState("code", FALSE, "apply_best_mask", <<>>, <<>>, 0, level)
    ELSE code_formatted(placed, best,
                        insert_format_info(best.symbol, sz, level, best.index),
                        sz, level)

\* ... from the point where the codewords are placed
code_placed(placed, sz, level, checks) ==
    IF ~placed.ok
    THEN SymState("code", FALSE, "insert_data_payload", <<>>, <<>>, 0, level)
    ELSE code_masked(placed, apply_best_mask(placed.canvas, sz, checks), sz, level)

\* ... from the point where the canvas is created
code_canvas(words, canvas, sz, level, checks) ==
    IF canvas = <<>>
    THEN SymState("code", FALSE, "create_qr_canvas", <<>>, <<>>, 0, level)
    ELSE code_placed(insert_data_payload(canvas, sz, words.data, words.ecc),
                     sz, level, checks)

\* ... from the point where the codewords are constructed
code_words(words, sz, level, checks) ==
    IF ~words.ok
    THEN SymState("code", FALSE, "construct_codewords", <<>>, <<>>, 0, level)
    ELSE code_canvas(words, create_qr_canvas(sz), sz, level, checks)

\* ... from the point where the bit stream is finalized
code_finalized(data_content, sz, level, checks) ==
    IF ~data_content.ok
    THEN SymState("code", FALSE, "finalize_bitstream", <<>>, <<>>, 0, level)
    ELSE code_words(construct_codewords(data_content.data_codewords, sz, level),
                    sz, level, checks)

\* ... from the point where the segment is encoded
code_encoded(encoder, sz, level, checks) ==
    IF ~encoder.ok
    THEN SymState("code", FALSE, "encode_data_segment", <<>>, <<>>, 0, level)
    ELSE code_finalized(finalize_bitstream(encoder, sz, level), sz, level, checks)

\* encoding "None" stands for Option::None, whose unwrap panics.  Each
\* step of the function is taken once and handed on as a value.
create_qr_code(content, sz, level, encoding, checks) ==
    IF encoding = "None"
    THEN SymState("code", FALSE, "unwrap", <<>>, <<>>, 0, level)
    ELSE code_encoded(encode_data_segment(NewRecorder, content, encoding, sz, checks),
                      sz, level, checks)

---------------------------------------------------------------------------
(* The symbol as a state machine: a caller either builds a whole symbol     *)
(* with create_qr_code, or creates a canvas and places codewords of its     *)
(* own on it.                                                               *)

\* how many codewords fewer than the full schedule a caller may place
MaxShort == 2

SymbolSizes == {Micro(i) : i \in 1..4} \cup {Standard(1), Standard(2), Standard(7)}

\* the sizes that get the small set of inputs
LargeSizes == {Standard(2), Standard(7)}

\* the payloads given to create_qr_code: the test payloads, an empty one,
\* a non-digit and a lower-case letter, a Kanji pair out of range, and one
\* too long for the small symbols; for the large sizes the numeric test
\* payload and the lower-case letter
CodeContents(sz, ec) ==
    IF sz \in LargeSizes
    THEN CASE ec = "Numeric" -> {Base(ec, 8)}
           [] ec = "Alphanumeric" -> {<<97>>}
           [] OTHER -> {}
    ELSE CASE ec = "Numeric" -> {<<>>, Base(ec, 8), <<58>>, Base(ec, MaxLen)}
           [] ec = "Alphanumeric" -> {Base(ec, 5), <<97>>}
           [] ec = "Bytes" -> {Base(ec, 4)}
           [] ec = "Kanji" -> {Base(ec, 4), <<129, 63>>}
           [] OTHER -> {<<>>}

\* the byte every data codeword of a caller's sequence holds; every ECC
\* codeword holds its complement
FillBytes == {0, 165}

Fill(n, b) == AsSeq([k \in 1..n |-> b])

LegalLevels(sz) == {l \in ECCLevels : HasCapacity(sz, l)}

\* the levels whose schedules a caller places
PlacementLevels(sz) == IF sz \in LargeSizes THEN {"L"} ELSE LegalLevels(sz)

\* the lengths (data, ecc) of the codeword sequences a caller places: the
\* schedule of a level, up to MaxShort ECC codewords fewer, one ECC
\* codeword more, no codewords at all, and data alone that overruns the
\* symbol
PayloadLengths(sz) ==
    UNION {LET cap == lookup_capacity(sz, l)
               d == data_codewords(cap)
               e == ecc_words(cap)
           IN  {<<d, e - k>> : k \in 0..MaxShort} \cup {<<d, e + 1>>, <<d + e + 1, 0>>}
           : l \in PlacementLevels(sz)}
      \cup {<<0, 0>>}

InitSymbol ==
    /\ pc = "new"
    /\ overflow_checks \in BOOLEAN
    /\ size \in SymbolSizes
    /\ stream = NewRecorder
    /\ call = NoCall
    /\ fin = NoFin
    /\ sym = NoSym

CreateQrCode(content, level, encoding) ==
    /\ pc = "new"
    /\ sym' = create_qr_code(content, size, level, encoding, overflow_checks)
    /\ call' = [op |-> "create", input |-> content, ec |-> encoding,
                assignment |-> 0, before |-> <<>>]
    /\ pc' = IF sym'.ok THEN "code" ELSE "panic"
    /\ UNCHANGED <<overflow_checks, size, stream, fin>>

\* what create_qr_canvas left: the canvas, or the panic of a size assertion
CanvasState(canvas) ==
    SymState("canvas", canvas # <<>>,
             IF canvas = <<>> THEN "create_qr_canvas" ELSE "none",
             canvas, <<>>, 0, "none")

CreateQrCanvas ==
    /\ pc = "new"
    /\ sym' = CanvasState(create_qr_canvas(size))
    /\ call' = [NoCall EXCEPT !.op = "canvas"]
    /\ pc' = IF sym'.ok THEN "canvas" ELSE "panic"
    /\ UNCHANGED <<overflow_checks, size, stream, fin>>

InsertDataPayload(data_bytes, ecc_bytes) ==
    /\ pc = "canvas"
    /\ LET placed == insert_data_payload(sym.image, size, data_bytes, ecc_bytes)
       IN  /\ sym' = SymState("placed", placed.ok, "none", placed.canvas,
                              placed.canvas, 0, "none")
           /\ pc' = IF placed.ok THEN "placed" ELSE "panic"
    /\ call' = [op |-> "place", input |-> data_bytes, ec |-> "none",
                assignment |-> Len(ecc_bytes), before |-> ecc_bytes]
    /\ UNCHANGED <<overflow_checks, size, stream, fin>>

\* the mask indices apply_best_mask can return
MaskIndices(sz) == IF sz.kind = "Micro" THEN 0..3 ELSE 0..7

\* apply_mask on the symbol the placement left, with the blank canvas of
\* the size as the marker; placed holds the symbol before the call
ApplyMask(pattern) ==
    /\ pc = "placed"
    /\ sym' = SymState("mask", TRUE, "none",
                       apply_mask(sym.image, pattern, size, create_qr_canvas(size)),
                       sym.image, pattern, "none")
    /\ call' = [NoCall EXCEPT !.op = "apply_mask", !.assignment = pattern]
    /\ pc' = "mask"
    /\ UNCHANGED <<overflow_checks, size, stream, fin>>

NextSymbol ==
    \/ \E encoding \in Encodings \cup {"None"} :
         \E content \in CodeContents(size, encoding) :
           \E level \in ECCLevels : CreateQrCode(content, level, encoding)
    \/ CreateQrCanvas
    \/ \E lens \in PayloadLengths(size) :
         \E b \in FillBytes :
           InsertDataPayload(Fill(lens[1], b), Fill(lens[2], 255 - b))

SpecSymbol == InitSymbol /\ [][NextSymbol]_vars

\* The capacity table as its callers read it: lookup_capacity for a size
\* and a level.
TableSizes == {Micro(i) : i \in 1..4} \cup {Standard(i) : i \in 1..40}

InitTable ==
    /\ pc = "new"
    /\ overflow_checks \in BOOLEAN
    /\ size \in TableSizes
    /\ stream = NewRecorder
    /\ call = NoCall
    /\ fin = NoFin
    /\ sym = NoSym

\* what lookup_capacity left: the entry of (size, level), or the panic of
\* indexing the table with a key it does not hold
LookupCapacity(ecl) ==
    /\ pc = "new"
    /\ sym' = IF HasCapacity(size, ecl)
              THEN [phase |-> "capacity", ok |-> TRUE, level |-> ecl,
                    cap |-> lookup_capacity(size, ecl)]
              ELSE [phase |-> "capacity", ok |-> FALSE, level |-> ecl]
    /\ call' = [NoCall EXCEPT !.op = "lookup", !.ec = ecl]
    /\ pc' = IF HasCapacity(size, ecl) THEN "capacity" ELSE "panic"
    /\ UNCHANGED <<overflow_checks, size, stream, fin>>

NextTable == \E ecl \in ECCLevels : LookupCapacity(ecl)

SpecTable == InitTable /\ [][NextTable]_vars

\* The canvas of every size a caller can name: the version is a u8, the
\* versions next to the legal ranges are among the inputs.
MaxMicro == 5
MaxStandard == 41
CanvasSizes == {Micro(i) : i \in 0..MaxMicro} \cup {Standard(i) : i \in 0..MaxStandard}

InitCanvas ==
    /\ pc = "new"
    /\ overflow_checks \in BOOLEAN
    /\ size \in CanvasSizes
    /\ stream = NewRecorder
    /\ call = NoCall
    /\ fin = NoFin
    /\ sym = NoSym

NextCanvas == CreateQrCanvas

SpecCanvas == InitCanvas /\ [][NextCanvas]_vars

\* The format information as a caller of its own writes it: a canvas, then
\* insert_format_info for a level and a mask index.
FormatSizes == {Micro(i) : i \in 1..4} \cup {Standard(1), Standard(7)}

InitFormat ==
    /\ pc = "new"
    /\ overflow_checks \in BOOLEAN
    /\ size \in FormatSizes
    /\ stream = NewRecorder
    /\ call = NoCall
    /\ fin = NoFin
    /\ sym = NoSym

\* what insert_format_info left: placed holds the symbol before the call
FormatState(before, after, ecl, mask_pattern) ==
    SymState("format", after # <<>>,
             IF after = <<>> THEN "insert_format_info" ELSE "none",
             after, before, mask_pattern, ecl)

InsertFormatInfo(ecl, mask_pattern) ==
    /\ pc = "canvas"
    /\ sym' = FormatState(sym.image,
                          insert_format_info(sym.image, size, ecl, mask_pattern),
                          ecl, mask_pattern)
    /\ call' = [NoCall EXCEPT !.op = "format", !.ec = ecl, !.assignment = mask_pattern]
    /\ pc' = IF sym'.ok THEN "format" ELSE "panic"
    /\ UNCHANGED <<overflow_checks, size, stream, fin>>

NextFormat ==
    \/ CreateQrCanvas
    \/ \E ecl \in ECCLevels : \E mask_pattern \in MaskIndices(size) :
         InsertFormatInfo(ecl, mask_pattern)

SpecFormat == InitFormat /\ [][NextFormat]_vars

\* The version information as a caller of its own writes it: a canvas, then
\* insert_version_info.
VersionSizes ==
    {Micro(i) : i \in 1..4} \cup {Standard(i) : i \in 1..12}
        \cup {Standard(39), Standard(40)}

InitVersion ==
    /\ pc = "new"
    /\ overflow_checks \in BOOLEAN
    /\ size \in VersionSizes
    /\ stream = NewRecorder
    /\ call = NoCall
    /\ fin = NoFin
    /\ sym = NoSym

\* what insert_version_info left: placed holds the symbol before the call
VersionState(before, after) ==
    SymState("version", TRUE, "none", after, before, 0, "none")

InsertVersionInfo ==
    /\ pc = "canvas"
    /\ sym' = VersionState(sym.image, insert_version_info(sym.image, size))
    /\ call' = [NoCall EXCEPT !.op = "version"]
    /\ pc' = "version"
    /\ UNCHANGED <<overflow_checks, size, stream, fin>>

NextVersion ==
    \/ CreateQrCanvas
    \/ InsertVersionInfo

SpecVersion == InitVersion /\ [][NextVersion]_vars

\* The mask selection as a caller of its own drives it: a canvas, the
\* codewords placed on it, apply_best_mask.
MaskSizes == {Micro(i) : i \in 1..4} \cup {Standard(1)}

InitMask ==
    /\ pc = "new"
    /\ overflow_checks \in BOOLEAN
    /\ size \in MaskSizes
    /\ stream = NewRecorder
    /\ call = NoCall
    /\ fin = NoFin
    /\ sym = NoSym

\* what apply_best_mask left: the symbol given to it (placed), the index
\* and the masked symbol it returned, and the value of every mask
MaskState(placed, best) ==
    [phase |-> "masked", ok |-> best.ok, fail |-> "none", image |-> best.symbol,
     placed |-> placed, index |-> best.index, level |-> "none",
     scores |-> best.scores]

ApplyBestMask ==
    /\ pc = "placed"
    /\ sym' = MaskState(sym.image, apply_best_mask(sym.image, size, overflow_checks))
    /\ call' = [NoCall EXCEPT !.op = "mask"]
    /\ pc' = IF sym'.ok THEN "masked" ELSE "panic"
    /\ UNCHANGED <<overflow_checks, size, stream, fin>>

NextMask ==
    \/ CreateQrCanvas
    \/ \E lens \in PayloadLengths(size) :
         \E b \in FillBytes :
           InsertDataPayload(Fill(lens[1], b), Fill(lens[2], 255 - b))
    \/ ApplyBestMask

SpecMask == InitMask /\ [][NextMask]_vars

\* The masks one by one: a canvas, the codewords of a full schedule, then
\* apply_mask with each pattern.
PatternSizes == {Micro(i) : i \in 1..4} \cup {Standard(1), Standard(2), Standard(7)}

\* the lengths (data, ecc) of the schedule of the lowest level of a size
ScheduleLengths(sz) ==
    <<data_codewords(lookup_capacity(sz, "L")), ecc_words(lookup_capacity(sz, "L"))>>

\* the bytes every data codeword of a caller's sequence holds; every ECC
\* codeword holds the complement
PatternBytes == {0, 165, 255}

InitPattern ==
    /\ pc = "new"
    /\ overflow_checks \in BOOLEAN
    /\ size \in PatternSizes
    /\ stream = NewRecorder
    /\ call = NoCall
    /\ fin = NoFin
    /\ sym = NoSym

NextPattern ==
    \/ CreateQrCanvas
    \/ \E b \in PatternBytes :
         InsertDataPayload(Fill(ScheduleLengths(size)[1], b),
                           Fill(ScheduleLengths(size)[2], 255 - b))
    \/ \E pattern \in MaskIndices(size) : ApplyMask(pattern)

SpecPattern == InitPattern /\ [][NextPattern]_vars

\* The scores of the masked symbols: SpecPattern, then the score function
\* of the kind of symbol.
ScoreState(masked, score, sums) ==
    [phase |-> "score", ok |-> score.ok, fail |-> "none", image |-> masked.image,
     placed |-> masked.placed, index |-> masked.index, level |-> "none",
     score |-> score, sums |-> sums]

\* compute_mask_penalty_score_standard, with the sums it went through
StandardScoreState(masked, sums, checks) ==
    ScoreState(masked, score_of_sums(sums, checks), sums)

ComputeMaskScore ==
    /\ pc = "mask"
    /\ sym' = IF size.kind = "Micro"
              THEN ScoreState(sym, compute_mask_score_micro(sym.image), <<>>)
              ELSE StandardScoreState(sym, standard_penalty_sums(sym.image), overflow_checks)
    /\ call' = [NoCall EXCEPT !.op = "score"]
    /\ pc' = IF sym'.ok THEN "score" ELSE "panic"
    /\ UNCHANGED <<overflow_checks, size, stream, fin>>

NextScore ==
    \/ NextPattern
    \/ ComputeMaskScore

SpecScore == InitPattern /\ [][NextScore]_vars

---------------------------------------------------------------------------
\* The alignment pattern coordinates as their callers ask for them: for a
\* Standard version, the coordinate list or the list of centre points.
AlignVersions == 1..MaxStandard

InitAlign ==
    /\ pc = "new"
    /\ overflow_checks = FALSE
    /\ size \in {Standard(v) : v \in AlignVersions}
    /\ stream = NewRecorder
    /\ call = NoCall
    /\ fin = NoFin
    /\ sym = NoSym

CreateAlignmentPatternCoordList ==
    /\ pc = "new"
    /\ sym' = [phase |-> "coords", coords |-> create_alignment_pattern_coord_list(size.v)]
    /\ call' = [NoCall EXCEPT !.op = "coord_list"]
    /\ pc' = "coords"
    /\ UNCHANGED <<overflow_checks, size, stream, fin>>

GetAlignmentPatternPoints ==
    /\ pc = "new"
    /\ sym' = [phase |-> "points", points |-> get_alignment_pattern_points(size.v)]
    /\ call' = [NoCall EXCEPT !.op = "points"]
    /\ pc' = "points"
    /\ UNCHANGED <<overflow_checks, size, stream, fin>>

NextAlign ==
    \/ CreateAlignmentPatternCoordList
    \/ GetAlignmentPatternPoints

SpecAlign == InitAlign /\ [][NextAlign]_vars

\* The canvas of every size, and the placement of the codewords of a full
\* schedule in the Micro sizes and in the Standard versions at which the
\* number of alignment patterns changes.
PlaceSizes == {Micro(i) : i \in 1..4} \cup {Standard(i) : i \in 1..40}

PlacedSizes ==
    {Micro(i) : i \in 1..4}
        \cup {Standard(i) : i \in {1, 2, 40} \cup {7 * k - 1 : k \in 1..5} \cup {7 * k : k \in 1..5}}

InitPlace ==
    /\ pc = "new"
    /\ overflow_checks = FALSE
    /\ size \in PlaceSizes
    /\ stream = NewRecorder
    /\ call = NoCall
    /\ fin = NoFin
    /\ sym = NoSym

NextPlace ==
    \/ CreateQrCanvas
    \/ /\ size \in PlacedSizes
       /\ InsertDataPayload(Fill(ScheduleLengths(size)[1], 165), Fill(ScheduleLengths(size)[2], 90))

SpecPlace == InitPlace /\ [][NextPlace]_vars

(* Properties of the symbol (specification SpecSymbol).                     *)

\* the pixels <<x, y>> of img that satisfy nothing but being there
Pixels(img) == (0..(Width(img) - 1)) \X (0..(Height(img) - 1))

\* the pixels of img that hold the value v
PixelsHolding(img, v) == {p \in Pixels(img) : Px(img, p[1], p[2]) = v}

\* <<x, y>> lies in the quiet zone of a symbol of size sz
InQuietZone(p, sz) ==
    LET q == quiet_region_size(sz)
        s == dimensions(sz) + 2 * q
    IN  p[1] < q \/ p[2] < q \/ p[1] >= s - q \/ p[2] >= s - q

\* C1: in every image create_qr_code returns each cell is Light (255) or
\* Dark (0), so that no marker of the encoding region, the format
\* information or the version information remains, and every cell of the
\* quiet zone is Light.
C1_OnlyLightAndDark ==
    (sym.phase = "code" /\ sym.ok)
        => /\ Height(sym.image) = dimensions(size) + 2 * quiet_region_size(size)
           /\ \A y1 \in 1..Height(sym.image) : Len(sym.image[y1]) = Height(sym.image)
           /\ \A p \in Pixels(sym.image) :
                /\ Px(sym.image, p[1], p[2]) \in {BIT_WHITE, BIT_BLACK}
                /\ Px(sym.image, p[1], p[2]) \notin
                      {MARKER_ENCODING_REGION, MARKER_FORMAT_INFORMATION,
                       MARKER_VERSION_INFORMATION}
                /\ InQuietZone(p, size) => Px(sym.image, p[1], p[2]) = BIT_WHITE

\* a version 7 symbol, which has version information, was returned
C1_Witness ==
    /\ sym.phase = "code" /\ sym.ok
    /\ size = Standard(7)
    /\ call.op = "create"

\* C3: whenever insert_data_payload returns on a freshly created canvas,
\* no cell holds the marker of the encoding region: every cell that held
\* it is Dark or Light.
C3_NoDataRegionLeft ==
    /\ (sym.phase = "placed" /\ sym.ok)
         => /\ PixelsHolding(sym.image, MARKER_ENCODING_REGION) = {}
            /\ \A p \in PixelsHolding(create_qr_canvas(size), MARKER_ENCODING_REGION) :
                   Px(sym.image, p[1], p[2]) \in {BIT_WHITE, BIT_BLACK}
    /\ (sym.phase = "code" /\ sym.ok)
         => PixelsHolding(sym.placed, MARKER_ENCODING_REGION) = {}

\* codewords that do not fill the encoding region were placed, so that
\* the padding loop ran
C3_Witness ==
    /\ sym.phase = "placed" /\ sym.ok
    /\ call.op = "place"
    /\ 8 * (Len(call.input) + call.assignment) + 8
          < Cardinality(PixelsHolding(create_qr_canvas(size), MARKER_ENCODING_REGION))



---------------------------------------------------------------------------
(* Properties of the mask selection (specification SpecMask).               *)

\* a is a better value than b: a lower penalty (Standard), a higher
\* score (Micro)
BetterValue(a, b) == IF size.kind = "Micro" THEN ScoreLess(b, a) ELSE ScoreLess(a, b)

\* C14: apply_best_mask values all 8 (Standard) or all 4 (Micro) masks,
\* returns the index of a mask whose copy has the best value, the lowest
\* penalty or the highest score, and the symbol masked by that index; of
\* several masks with the best value it returns the one of lowest index.
C14_BestMaskLowestIndex ==
    (sym.phase = "masked" /\ sym.ok)
        => LET n == IF size.kind = "Micro" THEN 4 ELSE 8
               chosen == sym.scores[sym.index + 1]
           IN  /\ Len(sym.scores) = n
               /\ sym.index \in 0..(n - 1)
               /\ sym.image = apply_mask(sym.placed, sym.index, size,
                                         create_qr_canvas(size))
               /\ \A m \in 1..n : ~BetterValue(sym.scores[m], chosen)
               /\ \A m \in 1..sym.index : BetterValue(chosen, sym.scores[m])


---------------------------------------------------------------------------
(* Properties of the capacity table (specification SpecTable).              *)

\* the last call was lookup_capacity and it returned an entry
AfterLookup == sym.phase = "capacity" /\ sym.ok

\* the table has an entry for every level of a Standard size, for L of
\* Micro(1), L and M of Micro(2) and Micro(3), and L, M and Q of Micro(4)
LevelsOf(sz) ==
    IF sz.kind = "Standard" THEN ECCLevels
    ELSE CASE sz.v = 1 -> {"L"}
           [] sz.v = 4 -> {"L", "M", "Q"}
           [] OTHER -> {"L", "M"}

\* C15: the total codeword count of an entry, the sum over both groups of
\* num_blocks * codewords, is the same for every level that is legal for
\* the entry's size.
C15_TotalCodewordsPerSize ==
    /\ AfterLookup
          => \A l \in LegalLevels(size) :
                 codewords(lookup_capacity(size, l)) = codewords(sym.cap)
    /\ LegalLevels(size) = LevelsOf(size)

\* a lookup of a size whose levels differ in the number of groups
C15_Witness ==
    /\ AfterLookup /\ size = Standard(5) /\ sym.level = "Q"
    /\ sym.cap.block_def2.num_blocks # 0
    /\ lookup_capacity(size, "L").block_def2.num_blocks = 0

\* C16: for every Standard size and every level, data_bits is 8 times
\* data_codewords().
C16_DataBitsOfStandard ==
    (AfterLookup /\ size.kind = "Standard")
        => sym.cap.data_bits = 8 * data_codewords(sym.cap)

\* the lookup of the last size, at the highest level, with two groups
C16_Witness ==
    /\ AfterLookup /\ size = Standard(40) /\ sym.level = "H"
    /\ sym.cap.block_def2.num_blocks # 0

\* C17: in every entry with a second group of blocks, the second group's
\* codewords and data codewords per block are one more than the first
\* group's, so both groups have ecc_words_per_block() ECC codewords in a
\* block.
C17_SecondGroupOneLonger ==
    (AfterLookup /\ sym.cap.block_def2.num_blocks # 0)
        => /\ sym.cap.block_def2.codewords = sym.cap.block_def1.codewords + 1
           /\ sym.cap.block_def2.data_codewords = sym.cap.block_def1.data_codewords + 1
           /\ sym.cap.block_def2.codewords - sym.cap.block_def2.data_codewords
                 = ecc_words_per_block(sym.cap)
           /\ ecc_words(sym.cap)
                 = (sym.cap.block_def1.num_blocks + sym.cap.block_def2.num_blocks)
                     * ecc_words_per_block(sym.cap)

\* an entry with several blocks in each of its two groups
C17_Witness ==
    /\ AfterLookup /\ size = Standard(5) /\ sym.level = "H"
    /\ sym.cap.block_def1.num_blocks = 2
    /\ sym.cap.block_def2.num_blocks = 2


---------------------------------------------------------------------------
(* Properties of the canvas sizes (specification SpecCanvas).               *)

\* the last call was create_qr_canvas
AfterCanvas == sym.phase = "canvas"

LegalVersion(sz) ==
    IF sz.kind = "Micro" THEN sz.v \in 1..4 ELSE sz.v \in 1..40

\* interior side plus twice the quiet-zone width
CanvasSide(sz) ==
    IF sz.kind = "Micro" THEN (2 * sz.v + 9) + 4 ELSE (4 * sz.v + 17) + 8

\* C18: create_qr_canvas returns a square grid of side (2k+9)+4 for
\* Micro(k), k in 1..4, and of side (4v+17)+8 for Standard(v), v in 1..40;
\* for every other version number it fails and returns no canvas.
C18_CanvasSide ==
    AfterCanvas
        => IF LegalVersion(size)
           THEN /\ sym.ok
                /\ Len(sym.image) = CanvasSide(size)
                /\ \A y1 \in 1..Len(sym.image) :
                       Len(sym.image[y1]) = CanvasSide(size)
           ELSE ~sym.ok /\ sym.image = <<>> /\ pc = "panic"

\* the largest canvas
C18_Witness ==
    /\ AfterCanvas /\ size = Standard(40) /\ sym.ok
    /\ Len(sym.image) = 185

\* a version one past the last
C18_WitnessInvalid ==
    AfterCanvas /\ size = Standard(41) /\ ~sym.ok


---------------------------------------------------------------------------
(* Properties of the format and version information (specifications        *)
(* SpecFormat and SpecVersion).                                             *)

\* the exclusive or of two words of n bits
RECURSIVE XorWord(_, _, _)
XorWord(a, b, n) ==
    IF n = 0 THEN 0
    ELSE 2 * XorWord(a \div 2, b \div 2, n - 1) + ((a + b) % 2)

\* the remainder of the polynomial r modulo the generator g of degree deg,
\* over GF(2); i is the highest power r can hold
RECURSIVE BchRemainder(_, _, _, _)
BchRemainder(r, g, i, deg) ==
    IF i < deg THEN r
    ELSE BchRemainder(IF (r \div Pow2(i)) % 2 = 1
                      THEN XorWord(r, g * Pow2(i - deg), i + 1)
                      ELSE r,
                      g, i - 1, deg)

\* the systematic BCH(n, k) code word of the k-bit word d: d followed by
\* the n - k check bits
BchEncode(d, n, k, g) ==
    d * Pow2(n - k) + BchRemainder(d * Pow2(n - k), g, n - 1, n - k)

\* the 15-bit format word of a 5-bit input: BCH(15,5) with the generator
\* x^10 + x^8 + x^5 + x^4 + x^2 + x + 1 (1335), then the mask of the kind
\* of symbol, 0x5412 (21522) or 0x4445 (17477)
FormatWord(input, kind) ==
    XorWord(BchEncode(input, 15, 5, 1335),
            IF kind = "Micro" THEN 17477 ELSE 21522, 15)

\* the symbol number of a Micro size and level
SymbolNumber(sz, ecl) ==
    CASE sz.v = 1 -> 0
      [] sz.v = 2 -> (IF ecl = "L" THEN 1 ELSE 2)
      [] sz.v = 3 -> (IF ecl = "L" THEN 3 ELSE 4)
      [] OTHER -> (IF ecl = "L" THEN 5 ELSE IF ecl = "M" THEN 6 ELSE 7)

\* the 5-bit input: the 2-bit code of the level, then the 3-bit mask index
\* (Standard); the 3-bit symbol number, then the 2-bit mask index (Micro)
FormatInput(sz, ecl, mask_pattern) ==
    IF sz.kind = "Micro"
    THEN SymbolNumber(sz, ecl) * 4 + mask_pattern
    ELSE (CASE ecl = "L" -> 1 [] ecl = "M" -> 0 [] ecl = "Q" -> 3 [] OTHER -> 2) * 8
             + mask_pattern

\* the bits the symbol holds at the pixels a coordinate table names, in the
\* order of the table; 2 where the pixel is neither light nor dark
ReadBits(img, coords, sz) ==
    AsSeq([k \in 1..Len(coords) |->
        LET p == coord_pixel(coords, k, sz)
            v == Px(img, p[1], p[2])
        IN  IF v = BIT_BLACK THEN 1 ELSE IF v = BIT_WHITE THEN 0 ELSE 2])

FormatTablesAreBch ==
    \A i \in 0..31 :
        /\ FORMAT_INFOS_QR[i + 1] = FormatWord(i, "Standard")
        /\ FORMAT_INFOS_MICRO_QR[i + 1] = FormatWord(i, "Micro")

\* the last call was insert_format_info, for a level legal for the size
AfterFormat == sym.phase = "format" /\ HasCapacity(size, sym.level)

\* C19: for every legal size and level and every mask index,
\* insert_format_info writes the BCH(15,5) code word of the 5-bit input,
\* XORed with 0x5412 (Standard) or 0x4445 (Micro): each of the 32 entries
\* of both tables is that word, and the same 15 bits stand at both format
\* positions of a Standard symbol and at the one position of a Micro symbol.
C19_FormatInfo ==
    /\ FormatTablesAreBch
    /\ AfterFormat
          => LET word == AsSeq(ToBits(15, FormatWord(
                             FormatInput(size, sym.level, sym.index), size.kind)))
             IN  /\ sym.ok
                 /\ IF size.kind = "Micro"
                    THEN ReadBits(sym.image, FORMAT_INFO_COORDS_MICRO_QR, size) = word
                    ELSE /\ ReadBits(sym.image, FORMAT_INFO_COORDS_QR_MAIN, size) = word
                         /\ ReadBits(sym.image, FORMAT_INFO_COORDS_QR_SIDE, size) = word

\* level Q with mask 5 on a Standard symbol: the word 0x2183
C19_Witness ==
    /\ AfterFormat /\ size = Standard(7) /\ sym.level = "Q" /\ sym.index = 5
    /\ sym.ok
    /\ ReadBits(sym.image, FORMAT_INFO_COORDS_QR_SIDE, size) = AsSeq(ToBits(15, 8579))

VersionTableIsBch ==
    \A v \in 7..40 : VERSION_INFOS[v - 7 + 1] = BchEncode(v, 18, 6, 7973)

\* the last call was insert_version_info
AfterVersion == sym.phase = "version"

\* the 6 x 3 block above the bottom-left finder and the 3 x 6 block left of
\* the top-right finder, in a canvas of side s
VersionBlocks(s) ==
    ((4..9) \X ((s - 15)..(s - 13))) \cup (((s - 15)..(s - 13)) \X (4..9))

\* C20: insert_version_info leaves a Micro symbol and a Standard symbol
\* below version 7 unchanged; for the versions 7..40 it writes the same
\* 18-bit word, the BCH(18,6) code word of the version with the generator
\* 0x1F25 (7973), which each of the 34 entries of VERSION_INFOS is, into
\* both reserved 6 x 3 blocks and changes no other cell.
C20_VersionInfo ==
    /\ VersionTableIsBch
    /\ AfterVersion
          => IF size.kind = "Micro" \/ size.v < 7
             THEN sym.image = sym.placed
             ELSE LET word == AsSeq(ToBits(18, BchEncode(size.v, 18, 6, 7973)))
                      s == Len(sym.image)
                  IN  /\ ReadBits(sym.image, VERSION_INFO_COORDS_BL, size) = word
                      /\ ReadBits(sym.image, VERSION_INFO_COORDS_TR, size) = word
                      /\ Len(sym.placed) = s
                      /\ \A p \in Pixels(sym.image) :
                             IF p \in VersionBlocks(s)
                             THEN /\ Px(sym.placed, p[1], p[2]) = MARKER_FORMAT_INFORMATION
                                  /\ Px(sym.image, p[1], p[2]) \in {BIT_WHITE, BIT_BLACK}
                             ELSE Px(sym.image, p[1], p[2]) = Px(sym.placed, p[1], p[2])

\* the last version: the word 0x28C69 in both blocks
C20_Witness ==
    /\ AfterVersion /\ size = Standard(40)
    /\ sym.image # sym.placed
    /\ ReadBits(sym.image, VERSION_INFO_COORDS_TR, size) = AsSeq(ToBits(18, 167017))

\* a version below 7: nothing written
C20_WitnessUnchanged ==
    AfterVersion /\ size = Standard(6) /\ sym.image = sym.placed


---------------------------------------------------------------------------
(* Properties of the configuration strings (specification SpecParse).       *)

\* the last call was SymbolConfig::from_str
AfterParse == sym.phase = "parse"

\* the sizes M1..M4 and 1..40 with the levels L, M, Q, H
LegalConfigs ==
    [size : {Micro(i) : i \in 1..4} \cup {Standard(i) : i \in 1..40}, level : ECCLevels]

\* "{size}-{ecc}"
FormatConfig(config) ==
    (IF config.size.kind = "Micro" THEN <<"M">> ELSE <<>>)
        \o Decimal(config.size.v) \o <<"-">> \o <<config.level>>

IsFormatted(decl) == \E config \in LegalConfigs : decl = FormatConfig(config)

\* formatting a config and parsing it gives the same config back
C21_RoundTrip ==
    (AfterParse /\ IsFormatted(call.input))
        => /\ sym.ok
           /\ FormatConfig(sym.config) = call.input
           /\ sym.config \in LegalConfigs

\* C21: SymbolConfig::from_str parses every string "{size}-{ecc}" with
\* size in M1..M4 or 1..40 and ecc in L, M, Q, H to the config of exactly
\* that size and level, and fails for a size or a level outside those sets.
C21_ParseConfig ==
    /\ C21_RoundTrip
    /\ (AfterParse /\ Len(split_dash(call.input)) = 2 /\ ~IsFormatted(call.input))
          => ~sym.ok

\* the last legal config
C21_Witness ==
    /\ AfterParse /\ call.input = <<"4", "0", "-", "H">>
    /\ sym.ok /\ sym.config = [size |-> Standard(40), level |-> "H"]

\* a version past the last one is refused
C21_WitnessRefused ==
    AfterParse /\ call.input = <<"4", "1", "-", "H">> /\ ~sym.ok


---------------------------------------------------------------------------
(* Properties of the finalized bit sequence (specification Spec).           *)

Zeros(n) == AsSeq([i \in 1..n |-> 0])

\* n pad codewords, 0xEC first, as bits
PadCodewordBits(n) ==
    AsSeq([j \in 1..(8 * n) |->
        AsSeq(ToBits(8, IF ((j - 1) \div 8) % 2 = 0 THEN 236 ELSE 17))[((j - 1) % 8) + 1]])

\* the sequence of cap bits the specification describes for the recorded
\* bits: terminator, zero bits to the byte boundary, pad codewords, and the
\* last half codeword of Micro(1) and Micro(3)
FinalizedBits(recorded, sz, cap) ==
    LET w == Len(recorded)
        T == IF sz.kind = "Micro" THEN 2 * sz.v + 1 ELSE 4
        half == sz \in {Micro(1), Micro(3)}
        terminator == IF cap - w < T THEN cap - w ELSE T
        p1 == w + terminator
        boundary == IF p1 % 8 = 0 THEN 0
                    ELSE IF half /\ p1 > cap - 4 THEN cap - p1
                    ELSE 8 - (p1 % 8)
        p2 == p1 + boundary
        pads == (cap - p2) \div 8
        p3 == p2 + 8 * pads
        last == IF half /\ cap - p3 = 4 THEN 4 ELSE 0
    IN  AsSeq(recorded) \o Zeros(terminator) \o Zeros(boundary)
            \o PadCodewordBits(pads) \o Zeros(last)

\* C22: for w <= cap the finalized bit sequence is the w recorded bits,
\* then min(cap - w, T) zero terminator bits, then zero bits to the next
\* byte boundary (for Micro(1) and Micro(3) only up to cap inside the last
\* half codeword), then pad codewords 0xEC, 0x11, ... while a whole byte of
\* capacity remains, then 4 zero bits for Micro(1) and Micro(3) if 4 bits
\* remain. The recorder holds these cap bits, and for Micro(1) and Micro(3)
\* the 4 zero bits that complete the last byte of the returned vector.
C22_FinalizedSequence ==
    (AfterFinalize /\ HasCapacity(size, call.ec) /\ Len(call.before) <= Cap)
        => /\ fin.ok
           /\ Len(FinalizedBits(call.before, size, Cap)) = Cap
           /\ AsSeq(fin.stream.bits)
                 = FinalizedBits(call.before, size, Cap)
                     \o (IF size \in {Micro(1), Micro(3)} THEN Zeros(4) ELSE <<>>)

\* a Micro(1) recorder of 3 bits: terminator, boundary, one pad codeword
\* and the half codeword all take part
C22_Witness ==
    /\ AfterFinalize /\ size = Micro(1) /\ call.ec = "L"
    /\ call.before = <<1, 0, 1>>
    /\ fin.ok
    /\ AsSeq(fin.stream.bits)
         = <<1, 0, 1, 0, 0, 0, 0, 0, 1, 1, 1, 0, 1, 1, 0, 0, 0, 0, 0, 0, 0, 0, 0, 0>>

---------------------------------------------------------------------------
(* Properties of the returned codewords (specification Spec).               *)

\* every entry of the table schedules as many data codewords as its data
\* bits fill, the last one half filled for Micro(1) and Micro(3)
ScheduleHoldsDataBits ==
    \A r \in TableRows :
        LET row == SYMBOL_CAPACITY_TABLE[r]
            half == row[1] = "Micro" /\ row[2] \in {1, 3}
            cap == SymbolCapacity(row)
        IN  /\ 8 * data_codewords(cap) = cap.data_bits + (IF half THEN 4 ELSE 0)
            /\ data_codewords(cap)
                 = cap.block_def1.num_blocks * cap.block_def1.data_codewords
                     + cap.block_def2.num_blocks * cap.block_def2.data_codewords

\* C28: for every (size, ECC) of the capacity table and every recorder with
\* w <= cap, the byte vector finalize_bitstream returns has exactly
\* data_codewords() entries, the number the block schedule splits; for
\* Micro(1) and Micro(3) the low 4 bits of the last byte are zero.
C28_CodewordCount ==
    /\ ScheduleHoldsDataBits
    /\ (AfterFinalize /\ HasCapacity(size, call.ec) /\ Len(call.before) <= Cap)
          => /\ fin.ok
             /\ Len(fin.data_codewords)
                   = data_codewords(lookup_capacity(size, call.ec))
             /\ \A j \in 1..Len(fin.data_codewords) : fin.data_codewords[j] \in 0..255
             /\ size \in {Micro(1), Micro(3)}
                   => fin.data_codewords[Len(fin.data_codewords)] % 16 = 0

\* a Micro(3) recorder finalized at level M: 9 codewords, the last one with
\* data in its high half
C28_Witness ==
    /\ AfterFinalize /\ size = Micro(3) /\ call.ec = "M"
    /\ Len(call.before) = Cap
    /\ fin.ok
    /\ Len(fin.data_codewords) = 9
    /\ fin.data_codewords[9] = 160

---------------------------------------------------------------------------
(* Properties of the placement order (specification SpecMask).              *)

\* the last call was insert_data_payload and it returned
AfterPlacement == sym.phase = "placed" /\ sym.ok

\* the right column (interior) of the j-th strip from the right, j from 0,
\* with the pair at the vertical timing column left out: 4v+16, 4v+14, ...,
\* 8, then 5, 3, 1
StripRightColumn(v, j) ==
    IF j < 2 * v + 5 THEN 4 * v + 16 - 2 * j ELSE 5 - 2 * (j - (2 * v + 5))

\* the k-th module position (interior x, y) of the walk over the strips of
\* a Standard symbol: strips from right to left, the first one upwards and
\* then in alternating direction, right column before left column at each
\* row
StripPosition(v, k) ==
    LET dim == 4 * v + 17
        j == (k - 1) \div (2 * dim)
        t == ((k - 1) % (2 * dim)) \div 2
        side == (k - 1) % 2
    IN  <<StripRightColumn(v, j) - side,
          IF j % 2 = 0 THEN dim - 1 - t ELSE t>>

\* the data region cells of a Standard symbol in the order of that walk
StripOrder(v) ==
    LET canvas == create_qr_canvas(Standard(v))
        dim == 4 * v + 17
        IsData(p) == Px(canvas, p[1] + 4, p[2] + 4) = MARKER_ENCODING_REGION
    IN  SelectSeq(AsSeq([k \in 1..((2 * v + 8) * 2 * dim) |-> StripPosition(v, k)]), IsData)

\* the strips as insert_data_payload walks them: every strip has an even
\* right column, 4v+16, ..., 8, 6, 4, 2, 0
WalkedPosition(v, k) ==
    LET dim == 4 * v + 17
        j == (k - 1) \div (2 * dim)
        t == ((k - 1) % (2 * dim)) \div 2
        side == (k - 1) % 2
    IN  <<4 * v + 16 - 2 * j - side,
          IF j % 2 = 0 THEN dim - 1 - t ELSE t>>

WalkedOrder(v) ==
    LET canvas == create_qr_canvas(Standard(v))
        dim == 4 * v + 17
        IsData(p) == Px(canvas, p[1] + 4, p[2] + 4) = MARKER_ENCODING_REGION
    IN  SelectSeq(AsSeq([k \in 1..((2 * v + 9) * 2 * dim) |-> WalkedPosition(v, k)]), IsData)

\* the bits insert_data_payload reads: the data codewords, then the ECC
\* codewords, most significant bit first
PlacedBits == BytesBits(call.input) \o BytesBits(call.before)

\* the symbol holds the placed bits along the given order of cells, and
\* light modules in the cells after them
HoldsAlong(order) ==
    \A k \in 1..Len(order) :
        Px(sym.image, order[k][1] + 4, order[k][2] + 4)
            = IF k <= Len(PlacedBits) /\ PlacedBits[k] = 1 THEN BIT_BLACK ELSE BIT_WHITE

\* C23: in a Standard symbol insert_data_payload places the bits along the
\* two-column strips from right to left, right column before left column at
\* each row, reversing the vertical direction at the top and bottom edges;
\* the vertical timing column (interior x = 6) is skipped as a whole column
\* pair, so that the strips left of it are (5,4), (3,2), (1,0).
C23_StripOrder ==
    (AfterPlacement /\ size.kind = "Standard" /\ Len(PlacedBits) <= Len(StripOrder(size.v)))
        => HoldsAlong(StripOrder(size.v))

\* what the code does instead: column 6 is the right column of a strip
C23_WalkedOrder ==
    (AfterPlacement /\ size.kind = "Standard" /\ Len(PlacedBits) <= Len(WalkedOrder(size.v)))
        => HoldsAlong(WalkedOrder(size.v))

\* the two orders agree right of the timing column and differ left of it
C23_OrdersDiffer ==
    LET strips == StripOrder(1)
        walked == WalkedOrder(1)
    IN  /\ Len(strips) = Len(walked)
        /\ \A k \in 1..Len(strips) : strips[k][1] > 6 => strips[k] = walked[k]
        /\ \E k \in 1..Len(strips) : strips[k] # walked[k]

---------------------------------------------------------------------------
(* Properties of apply_mask (specification SpecPattern).                    *)

\* the last call was apply_mask
AfterApplyMask == sym.phase = "mask"

\* the mask predicates of the specification, at the row r and the column c
\* of the symbol interior
MaskPredicate(kind, index, r, c) ==
    IF kind = "Micro"
    THEN CASE index = 0 -> r % 2 = 0
           [] index = 1 -> ((r \div 2) + (c \div 3)) % 2 = 0
           [] index = 2 -> (((r * c) % 2) + ((r * c) % 3)) % 2 = 0
           [] OTHER -> (((r + c) % 2) + ((r * c) % 3)) % 2 = 0
    ELSE CASE index = 0 -> (r + c) % 2 = 0
           [] index = 1 -> r % 2 = 0
           [] index = 2 -> c % 3 = 0
           [] index = 3 -> (r + c) % 3 = 0
           [] index = 4 -> ((r \div 2) + (c \div 3)) % 2 = 0
           [] index = 5 -> ((r * c) % 2) + ((r * c) % 3) = 0
           [] index = 6 -> (((r * c) % 2) + ((r * c) % 3)) % 2 = 0
           [] OTHER -> (((r + c) % 2) + ((r * c) % 3)) % 2 = 0

\* C24: apply_mask with a valid pattern index changes only cells that are
\* tagged as data region on the blank canvas of the size: every other cell
\* (quiet zone, finder, separator, timing, alignment, reserved for format
\* or version information) holds the value it held before, and a data
\* region cell is flipped exactly when the mask predicate holds at its
\* interior row and column.
C24_MaskOnlyDataRegion ==
    AfterApplyMask
        => LET canvas == create_qr_canvas(size)
               q == IF size.kind = "Micro" THEN 2 ELSE 4
           IN  \A p \in Pixels(sym.image) :
                   LET before == Px(sym.placed, p[1], p[2])
                       after == Px(sym.image, p[1], p[2])
                   IN  IF Px(canvas, p[1], p[2]) = MARKER_ENCODING_REGION
                       THEN after = IF MaskPredicate(size.kind, sym.index, p[2] - q, p[1] - q)
                                    THEN (IF before = BIT_BLACK THEN BIT_WHITE ELSE BIT_BLACK)
                                    ELSE before
                       ELSE after = before

\* a version 7 symbol masked with pattern 5: alignment patterns and the
\* version blocks are among the cells left alone, and some cell is flipped
C24_Witness ==
    /\ AfterApplyMask /\ size = Standard(7) /\ sym.index = 5
    /\ sym.image # sym.placed
    /\ Px(sym.image, 4, 38) = MARKER_FORMAT_INFORMATION


(***************************************************************************)
(* Properties of the mask scores (specification SpecScore).               *)
(***************************************************************************)
AfterScore == sym.phase = "score"

\* the dark modules of the rightmost column of the symbol interior below
\* its top two cells: the interior of a Micro canvas is 2 .. width - 3
InteriorColumnSum(img) ==
    Cardinality({y \in 4..(Height(img) - 3) : Px(img, Width(img) - 3, y) = BIT_BLACK})

\* the dark modules of the bottom row of the symbol interior right of its
\* leftmost two cells
InteriorRowSum(img) ==
    Cardinality({x \in 4..(Width(img) - 3) : Px(img, x, Height(img) - 3) = BIT_BLACK})

MicroScoreOf(sum1, sum2) == IF sum1 <= sum2 THEN 16 * sum1 + sum2 ELSE 16 * sum2 + sum1

\* C25: the score of a masked Micro symbol is 16*sum1 + sum2 when
\* sum1 <= sum2 and 16*sum2 + sum1 otherwise, sum1 and sum2 counting the
\* dark modules of the rightmost column and the bottom row of the symbol
\* interior.
C25_MicroScore ==
    (AfterScore /\ size.kind = "Micro") =>
        sym.score.v = MicroScoreOf(InteriorColumnSum(sym.image), InteriorRowSum(sym.image))

\* what the code computes: the column and row at width - 2 and height - 2
\* are quiet zone, so every Micro score is 0
C25_QuietZoneScore ==
    (AfterScore /\ size.kind = "Micro") => sym.score.v = 0

C25_Witness ==
    /\ AfterScore
    /\ size = Micro(1)
    /\ InteriorColumnSum(sym.image) > 0
    /\ sym.score.v = 0


\* the rows and the columns of the symbol interior of a Standard canvas
InteriorLines(img) ==
    LET w == Width(img)
        h == Height(img)
    IN  [k \in 1..(h - 8) |-> AsSeq([n \in 1..(w - 8) |-> Px(img, n + 3, k + 3)])]
        \o [k \in 1..(w - 8) |-> AsSeq([n \in 1..(h - 8) |-> Px(img, k + 3, n + 3)])]

\* the length of the maximal run of one colour that begins at line[i], 0
\* when no run begins there
RunLengthAt(line, i) ==
    IF i > 1 /\ line[i - 1] = line[i] THEN 0
    ELSE LET last == CHOOSE j \in i..Len(line) :
                         /\ \A n \in i..j : line[n] = line[i]
                         /\ (j = Len(line) \/ line[j + 1] # line[i])
         IN  last - i + 1

\* (L - 5) + 3 for every maximal run of L >= 5 modules of the line
RunPenalty(line) ==
    LET each == [i \in 1..Len(line) |->
                    LET L == RunLengthAt(line, i)
                    IN  IF L >= 5 THEN (L - 5) + 3 ELSE 0]
    IN  SeqSum(each, 1, Len(line))

RunPenalties(lines) ==
    SeqSum([k \in 1..Len(lines) |-> RunPenalty(lines[k])], 1, Len(lines))

\* C26: the N1 part of the Standard penalty score is the sum of
\* (L - 5) + 3 over every maximal run of L >= 5 modules of one colour in
\* the interior rows and columns; shorter runs contribute nothing, a light
\* run at the beginning of a row or column included.
C26_RunPenalty ==
    (AfterScore /\ size.kind = "Standard") =>
        sym.sums.n1 = RunPenalties(InteriorLines(sym.image))

\* what the code computes: every scan begins with last_color = BIT_WHITE
\* and current_run = 1, so a light run at the first module of a line is
\* counted one module longer than it is
LeadingLight(line) == <<BIT_WHITE>> \o line

LeadingRunPenalty(line) ==
    LET lead == RunLengthAt(LeadingLight(line), 1)
        counted == RunPenalty(LeadingLight(line))
    IN  \* the module before the line is a run of its own when the line
        \* begins dark, and a run of 1 contributes nothing
        IF lead = 1 THEN RunPenalty(line) ELSE counted

C26_LeadingRunPenalty ==
    (AfterScore /\ size.kind = "Standard") =>
        sym.sums.n1 = SeqSum([k \in 1..Len(InteriorLines(sym.image)) |->
                                 LeadingRunPenalty(InteriorLines(sym.image)[k])],
                             1, Len(InteriorLines(sym.image)))


\* C30: the u32 score of a masked Standard symbol does not underflow: at
\* each of the two subtractions of 9 * 40 the score accumulated so far is
\* at least 360, and the function returns.
C30_NoUnderflow ==
    (AfterScore /\ size.kind = "Standard") =>
        /\ sym.sums.s2 >= 9 * PENALTY_N3
        /\ sym.sums.s4 >= 9 * PENALTY_N3
        /\ sym.ok
        /\ sym.score.wrapped = 0

\* the three finders hold the pattern in nine rows and nine columns, each
\* with the quiet zone or a separator on one side
C30_FinderOccurrences ==
    (AfterScore /\ size.kind = "Standard") =>
        /\ Cardinality(feature3_rows(sym.image)) >= 9
        /\ Cardinality(feature3_cols(sym.image)) >= 9

C30_Witness ==
    /\ AfterScore
    /\ size = Standard(7)
    /\ overflow_checks
    /\ pc = "score"
    /\ sym.index = 3
    /\ sym.sums.s2 >= 9 * PENALTY_N3
    /\ sym.sums.s4 >= 9 * PENALTY_N3


(***************************************************************************)
(* Properties of the alignment pattern coordinates (specification         *)
(* SpecAlign).                                                             *)
(***************************************************************************)
\* ISO/IEC 18004 Annex E, Table E.1: the row and column coordinates of the
\* centres of the alignment patterns of versions 1 to 40
TableE1 ==
    << <<>>, <<6, 18>>, <<6, 22>>, <<6, 26>>, <<6, 30>>, <<6, 34>>,
       <<6, 22, 38>>, <<6, 24, 42>>, <<6, 26, 46>>, <<6, 28, 50>>,
       <<6, 30, 54>>, <<6, 32, 58>>, <<6, 34, 62>>,
       <<6, 26, 46, 66>>, <<6, 26, 48, 70>>, <<6, 26, 50, 74>>,
       <<6, 30, 54, 78>>, <<6, 30, 56, 82>>, <<6, 30, 58, 86>>,
       <<6, 34, 62, 90>>,
       <<6, 28, 50, 72, 94>>, <<6, 26, 50, 74, 98>>, <<6, 30, 54, 78, 102>>,
       <<6, 28, 54, 80, 106>>, <<6, 32, 58, 84, 110>>, <<6, 30, 58, 86, 114>>,
       <<6, 34, 62, 90, 118>>,
       <<6, 26, 50, 74, 98, 122>>, <<6, 30, 54, 78, 102, 126>>,
       <<6, 26, 52, 78, 104, 130>>, <<6, 30, 56, 82, 108, 134>>,
       <<6, 34, 60, 86, 112, 138>>, <<6, 30, 58, 86, 114, 142>>,
       <<6, 34, 62, 90, 118, 146>>,
       <<6, 30, 54, 78, 102, 126, 150>>, <<6, 24, 50, 76, 102, 128, 154>>,
       <<6, 28, 54, 80, 106, 132, 158>>, <<6, 32, 58, 84, 110, 136, 162>>,
       <<6, 26, 54, 82, 110, 138, 166>>, <<6, 30, 58, 86, 114, 142, 170>> >>

TableVersion == size.kind = "Standard" /\ size.v >= 2 /\ size.v <= 40

\* the Cartesian product of the row of the table with itself without the
\* three pairs whose pattern would lie on a finder pattern
TablePoints(row) ==
    {<<row[i], row[j]>> : <<i, j>> \in (1..Len(row)) \X (1..Len(row))}
        \ {<<6, 6>>, <<6, row[Len(row)]>>, <<row[Len(row)], 6>>}

\* C27: for a Standard version v in 2..40 the coordinate list is the row
\* of Table E.1: strictly increasing, from 6 to 4v + 10, of floor(v / 7) + 2
\* entries; the centre points are the Cartesian product of the row with
\* itself minus the three pairs on the finder patterns.
C27_TableE1 ==
    /\ (sym.phase = "coords" /\ TableVersion) =>
            /\ sym.coords = TableE1[size.v]
            /\ \A i \in 1..(Len(sym.coords) - 1) : sym.coords[i] < sym.coords[i + 1]
            /\ sym.coords[1] = 6
            /\ sym.coords[Len(sym.coords)] = 4 * size.v + 10
            /\ Len(sym.coords) = (size.v \div 7) + 2
    /\ (sym.phase = "points" /\ TableVersion) =>
            /\ sym.points = TablePoints(TableE1[size.v])
            /\ Cardinality(sym.points) = Len(TableE1[size.v]) * Len(TableE1[size.v]) - 3

C27_Witness ==
    /\ sym.phase = "coords"
    /\ size = Standard(15)
    /\ sym.coords = <<6, 26, 48, 70>>

C27_WitnessPoints ==
    /\ sym.phase = "points"
    /\ size = Standard(7)
    /\ sym.points = {<<6, 22>>, <<22, 6>>, <<22, 22>>, <<22, 38>>, <<38, 22>>, <<38, 38>>}


(***************************************************************************)
(* Properties of the placement in every size (specification SpecPlace).   *)
(***************************************************************************)
\* the cells of the image marked as encoding region
DataRegionCells(img) ==
    SeqSum(AsSeq([y1 \in 1..Height(img) |->
                Cardinality({x1 \in 1..Width(img) : img[y1][x1] = MARKER_ENCODING_REGION})]),
           1, Height(img))

\* the bits insert_data_payload places for the full schedule of a size
ScheduleBits(sz) ==
    8 * codewords(lookup_capacity(sz, "L")) - (IF sz \in {Micro(1), Micro(3)} THEN 4 ELSE 0)

\* the placement changed no cell outside the encoding region of the canvas
OnlyDataRegionWritten(canvas, placed) ==
    \A y1 \in 1..Height(canvas) : \A x1 \in 1..Width(canvas) :
        canvas[y1][x1] # MARKER_ENCODING_REGION => placed[y1][x1] = canvas[y1][x1]

PlacedOnCanvas(canvas, placed) ==
    /\ Height(placed) = Height(canvas)
    /\ Width(placed) = Width(canvas)
    /\ OnlyDataRegionWritten(canvas, placed)
    \* every bit stands in a cell of its own: the cells left are those the
    \* schedule does not fill
    /\ DataRegionCells(canvas) - DataRegionCells(placed) \in
            {ScheduleBits(size), DataRegionCells(canvas)}

\* C29: the canvas of every size has at least as many encoding-region
\* cells as the full schedule has bits, and at most 7 more; the placement
\* of a full schedule does not panic and writes encoding-region cells only.
C29_RoomForSchedule ==
    /\ (AfterCanvas /\ sym.ok) =>
            /\ DataRegionCells(sym.image) >= ScheduleBits(size)
            /\ DataRegionCells(sym.image) <= ScheduleBits(size) + 7
    /\ sym.phase = "placed" =>
            /\ sym.ok
            /\ PlacedOnCanvas(create_qr_canvas(size), sym.image)

C29_Witness ==
    /\ sym.phase = "placed"
    /\ sym.ok
    /\ size = Standard(40)
    /\ Len(call.input) = 2956
    /\ DataRegionCells(sym.image) = 0

C29_WitnessRemainder ==
    /\ AfterCanvas
    /\ size = Standard(2)
    /\ DataRegionCells(sym.image) = ScheduleBits(size) + 7
=============================================================================
